---- MODULE Spec2Model ----
(***************************************************************************)
(* claude-time: schedule interpretation and execution engine.              *)
(*                                                                         *)
(* Three specifications share this module:                                 *)
(*   SpecExec  one invocation of executeSchedule (src/src/cli.ts) with the *)
(*             child process and the two timers it arms;                   *)
(*   Spec      the daemon (Scheduler, src/src/scheduler.ts) running        *)
(*             against the SQLite storage (Storage, src/src/notifier.ts)   *)
(*             while the MCP server process (MCPServer, src/src/server.ts) *)
(*             serves protocol operations on the same database;            *)
(*   SpecApi   the Scheduler's public methods called in any order.         *)
(*                                                                         *)
(* Text is a sequence of one-character strings; a Japanese character is    *)
(* written as its reading in ASCII ("mai" for U+6BCE, "ji" for U+6642).    *)
(***************************************************************************)
EXTENDS Integers, Sequences, FiniteSets, TLC

(***************************************************************************)
(* Bounds of the model.                                                    *)
(***************************************************************************)
\* characters a child writes to one stream during an invocation
MaxOut == 2
\* 'error' events a ChildProcess emits during an invocation
MaxErrorEvents == 1
\* schedule ids the storage ever holds
MaxSchedules == 2
\* timer firings of the daemon
MaxFirings == 2
\* protocol operations the server accepts
MaxOps == 2
\* storage statements that throw
MaxFailures == 1
\* calls of the Scheduler's public methods
MaxCalls == 3
MaxMinuteInterval == 61
MaxHourInterval == 25

VARIABLES
  \* ---- executeSchedule (one invocation) ----
  epc,          \* "entry" | "waiting" (handlers and timeout registered) | "threw"
  resolved,     \* let resolved
  timeoutId,    \* let timeoutId: "null" | "armed"
  killTimer,    \* the inner 5 s setTimeout: "none" | "armed" | "fired"
  resolveCalls, \* the results handed to the promise's resolve(), in order
  stdout,       \* let stdout
  stderr,       \* let stderr
  child,        \* the ChildProcess: "none" | "running" | "failed" | "exited"
  closed,       \* 'close' has been emitted
  sent,         \* signals delivered with proc.kill
  signals,      \* completion signals of the invocation, in order of occurrence
  \* ---- storage (SQLite) ----
  schedules,    \* table schedules: id -> row
  logs,         \* table execution_logs: id -> [schedule_id, status, writes]
  nextId,       \* the next schedule id (uuidv4: never reused)
  nextLogId,    \* the next AUTOINCREMENT id of execution_logs
  \* ---- Scheduler (daemon process) ----
  running,      \* this.running
  pollTimer,    \* this.pollTimer is set
  lastChecksum, \* this.lastChecksum
  jobs,         \* this.jobs: id -> [expr, stopped]
  orphans,      \* armed tasks that are no longer in this.jobs
  dpc,          \* "idle" | "load" | "register" | "checksum" | "dead"
  dctx,         \* the handler in progress: "start" | "poll" | "reload"
  dlist,        \* the rows read by getEnabledSchedules() in start()/reload()
  runs,         \* runJob calls awaiting executeSchedule
  fired,        \* the schedule ids of the timer firings, in order
  rejected,     \* runJob promises that rejected
  failures,     \* storage statements that threw
  tick,         \* [phase, id, broken]: the poll ticks since the last out-of-band edit,
                \* and whether a poll-triggered reload threw with none completed since
                \* ("noedit" | "edited" | "started" | "done") and the schedule
                \* whose expression that edit changed (0: none)
  calls,        \* the public methods called, in order
  \* ---- MCPServer (server process) ----
  op,           \* the updateSchedule call in progress
  ops,          \* operations accepted
  mruns,        \* schedule_run calls awaiting executeSchedule
  resp,         \* the last response
  \* ---- parseSchedule (one call) ----
  pin,          \* the input text
  pout,         \* <<>> before the call, <<ParseResult>> after it
  pagain,       \* <<>>, or <<the ParseResult for the expression in pout>>
  \* ---- getNextRunTime (one call) ----
  cin,          \* the expression
  cnow,         \* new Date() at the call
  cout          \* <<>> before the call, <<the value returned>> after it

execVars == <<epc, resolved, timeoutId, killTimer, resolveCalls, stdout, stderr,
              child, closed, sent, signals>>

serverVars == <<op, ops, mruns, resp, nextId>>

daemonVars == <<schedules, logs, nextLogId, running, pollTimer, lastChecksum, jobs,
                orphans, dpc, dctx, dlist, runs, fired, rejected, failures, tick,
                calls>>

parserVars == <<pin, pout, pagain, cin, cnow, cout>>

vars == <<execVars, daemonVars, serverVars, parserVars>>

(***************************************************************************)
(* Text helpers.                                                           *)
(***************************************************************************)
WhiteSpace == {" ", "\t", "\n"}

RECURSIVE trimStart(_)
trimStart(s) ==
  IF s # <<>> /\ Head(s) \in WhiteSpace THEN trimStart(Tail(s)) ELSE s

RECURSIVE trimEnd(_)
trimEnd(s) ==
  IF s # <<>> /\ s[Len(s)] \in WhiteSpace
  THEN trimEnd(SubSeq(s, 1, Len(s) - 1)) ELSE s

\* String.prototype.trim
trim(s) == trimEnd(trimStart(s))

(***************************************************************************)
(* Regular expressions, with JavaScript's backtracking semantics.          *)
(* A pattern is a tuple: <<"lit", c>>, <<"set", S>>, <<"any">>,            *)
(* <<"seq", <<p1, ..., pn>>>>, <<"alt", <<p1, ..., pn>>>>,                   *)
(* <<"rep", p, min, max>> (greedy, max = -1 for no limit),                 *)
(* <<"grp", n, p>> (capturing group n), <<"bol">> (^), <<"eol">> ($).      *)
(* ReMatch returns the ways the pattern can match at position i, in the    *)
(* order a backtracking matcher tries them; the first is the one taken.    *)
(***************************************************************************)
Digits == {"0", "1", "2", "3", "4", "5", "6", "7", "8", "9"}
NoCapture == <<"(undefined)">>
NoCaptures == [n \in 1..3 |-> NoCapture]

RECURSIVE ReMatch(_, _, _, _)
RECURSIVE ReEach(_, _, _, _)
\* continue with pattern r from each outcome of outs, in order
ReEach(outs, r, s, k) ==
  IF k > Len(outs) THEN <<>>
  ELSE ReMatch(r, s, outs[k].pos, outs[k].caps) \o ReEach(outs, r, s, k + 1)

ReMatch(r, s, i, caps) ==
  CASE r[1] = "lit" ->
         IF i <= Len(s) /\ s[i] = r[2] THEN <<[pos |-> i + 1, caps |-> caps]>> ELSE <<>>
    [] r[1] = "set" ->
         IF i <= Len(s) /\ s[i] \in r[2] THEN <<[pos |-> i + 1, caps |-> caps]>> ELSE <<>>
    [] r[1] = "any" ->
         IF i <= Len(s) /\ s[i] # "\n" THEN <<[pos |-> i + 1, caps |-> caps]>> ELSE <<>>
    [] r[1] = "bol" ->
         IF i = 1 THEN <<[pos |-> i, caps |-> caps]>> ELSE <<>>
    [] r[1] = "eol" ->
         IF i = Len(s) + 1 THEN <<[pos |-> i, caps |-> caps]>> ELSE <<>>
    [] r[1] = "seq" ->
         IF r[2] = <<>> THEN <<[pos |-> i, caps |-> caps]>>
         ELSE ReEach(ReMatch(Head(r[2]), s, i, caps), <<"seq", Tail(r[2])>>, s, 1)
    [] r[1] = "alt" ->
         IF r[2] = <<>> THEN <<>>
         ELSE ReMatch(Head(r[2]), s, i, caps) \o ReMatch(<<"alt", Tail(r[2])>>, s, i, caps)
    [] r[1] = "rep" ->
         LET more == IF r[4] = 0 THEN <<>>
                     ELSE LET once == SelectSeq(ReMatch(r[2], s, i, caps),
                                                LAMBDA o : o.pos > i)
                              rest == <<"rep", r[2],
                                        IF r[3] > 0 THEN r[3] - 1 ELSE 0,
                                        IF r[4] > 0 THEN r[4] - 1 ELSE r[4]>>
                          IN ReEach(once, rest, s, 1)
             stop == IF r[3] = 0 THEN <<[pos |-> i, caps |-> caps]>> ELSE <<>>
         IN more \o stop
    [] r[1] = "grp" ->
         LET inner == ReMatch(r[3], s, i, caps)
         IN [k \in 1..Len(inner) |->
               [pos |-> inner[k].pos,
                caps |-> [inner[k].caps EXCEPT ![r[2]] = SubSeq(s, i, inner[k].pos - 1)]]]

\* String.prototype.match / RegExp.prototype.test without the g flag: the
\* leftmost start position at which the pattern matches; <<>> for null,
\* else <<captures>>
RECURSIVE ReExecFrom(_, _, _)
ReExecFrom(r, s, i) ==
  IF i > Len(s) + 1 THEN <<>>
  ELSE LET outs == ReMatch(r, s, i, NoCaptures)
       IN IF outs # <<>> THEN <<outs[1].caps>> ELSE ReExecFrom(r, s, i + 1)

ReExec(r, s) == ReExecFrom(r, s, 1)
ReTest(r, s) == ReExec(r, s) # <<>>

\* pattern builders
Lit(c) == <<"lit", c>>
RECURSIVE LitsOf(_)
LitsOf(w) == IF w = <<>> THEN <<>> ELSE <<Lit(Head(w))>> \o LitsOf(Tail(w))
\* a literal word
Word(w) == <<"seq", LitsOf(w)>>
Cat(ps) == <<"seq", ps>>
Alt(ps) == <<"alt", ps>>
Grp(n, p) == <<"grp", n, p>>
Rep(p, lo, hi) == <<"rep", p, lo, hi>>
Opt(p) == Rep(p, 0, 1)
Plus(p) == Rep(p, 1, -1)
Star(p) == Rep(p, 0, -1)
Bol == <<"bol">>
Eol == <<"eol">>
Dot == <<"any">>
\* \d and \s
Dg == <<"set", Digits>>
Ws == <<"set", WhiteSpace>>

\* parseInt(text, 10) of a text of decimal digits
DigitValue(c) ==
  CASE c = "0" -> 0 [] c = "1" -> 1 [] c = "2" -> 2 [] c = "3" -> 3 [] c = "4" -> 4
    [] c = "5" -> 5 [] c = "6" -> 6 [] c = "7" -> 7 [] c = "8" -> 8 [] c = "9" -> 9

\* a parseInt that reads the last digit only
parseIntLastDigit(t) == IF t = <<>> THEN 0 ELSE DigitValue(t[Len(t)])

RECURSIVE parseInt(_)
parseInt(t) ==
  IF t = <<>> THEN 0 ELSE 10 * parseInt(SubSeq(t, 1, Len(t) - 1)) + DigitValue(t[Len(t)])

\* Number.prototype.toString for a non-negative integer
DigitChar(d) == <<"0", "1", "2", "3", "4", "5", "6", "7", "8", "9">>[d + 1]

RECURSIVE numToText(_)
numToText(n) ==
  IF n < 10 THEN <<DigitChar(n)>> ELSE numToText(n \div 10) \o <<DigitChar(n % 10)>>

\* String.prototype.toLowerCase on the letters of the alphabet in use
UpperCase == <<"A", "B", "C", "D", "E", "F", "G", "H", "I", "J", "K", "L", "M",
               "N", "O", "P", "Q", "R", "S", "T", "U", "V", "W", "X", "Y", "Z">>
LowerCase == <<"a", "b", "c", "d", "e", "f", "g", "h", "i", "j", "k", "l", "m",
               "n", "o", "p", "q", "r", "s", "t", "u", "v", "w", "x", "y", "z">>
toLowerCaseChar(c) ==
  IF \E k \in 1..26 : UpperCase[k] = c
  THEN LowerCase[CHOOSE k \in 1..26 : UpperCase[k] = c] ELSE c
toLowerCase(t) == [k \in 1..Len(t) |-> toLowerCaseChar(t[k])]

(***************************************************************************)
(* Dates: local wall-clock time, in a zone without daylight saving.        *)
(* A Date is [year, month (0..11), date, hours, minutes].                  *)
(***************************************************************************)
IsLeapYear(y) == (y % 4 = 0 /\ y % 100 # 0) \/ y % 400 = 0
DaysInMonth(y, mo) ==
  IF mo = 1 THEN (IF IsLeapYear(y) THEN 29 ELSE 28)
  ELSE IF mo \in {3, 5, 8, 10} THEN 30 ELSE 31

\* the Date a JavaScript Date holds after its fields were set past their
\* ranges (setMinutes(75), setDate(32), a time value moved forward)
RECURSIVE NormDate(_)
NormDate(d) ==
  IF d.minutes >= 60
    THEN NormDate([d EXCEPT !.minutes = d.minutes % 60,
                            !.hours = d.hours + d.minutes \div 60])
  ELSE IF d.hours >= 24
    THEN NormDate([d EXCEPT !.hours = d.hours % 24, !.date = d.date + d.hours \div 24])
  ELSE IF d.month > 11
    THEN NormDate([d EXCEPT !.month = d.month - 12, !.year = d.year + 1])
  ELSE IF d.date > DaysInMonth(d.year, d.month)
    THEN NormDate([d EXCEPT !.date = d.date - DaysInMonth(d.year, d.month),
                            !.month = d.month + 1])
  ELSE d

\* new Date(now.getTime() + n * 60 * 1000)
AddMinutes(now, n) == NormDate([now EXCEPT !.minutes = now.minutes + n])
\* d.setDate(d.getDate() + n)
AddDays(now, n) == NormDate([now EXCEPT !.date = now.date + n])

(***************************************************************************)
(* The schedule language parser (parser.ts).                               *)
(***************************************************************************)
\* const WEEKDAYS, in the order Object.entries lists it
WEEKDAYS == <<
  <<<<"s", "u", "n", "d", "a", "y">>, 0>>,
  <<<<"s", "u", "n">>, 0>>,
  <<<<"m", "o", "n", "d", "a", "y">>, 1>>,
  <<<<"m", "o", "n">>, 1>>,
  <<<<"t", "u", "e", "s", "d", "a", "y">>, 2>>,
  <<<<"t", "u", "e">>, 2>>,
  <<<<"w", "e", "d", "n", "e", "s", "d", "a", "y">>, 3>>,
  <<<<"w", "e", "d">>, 3>>,
  <<<<"t", "h", "u", "r", "s", "d", "a", "y">>, 4>>,
  <<<<"t", "h", "u">>, 4>>,
  <<<<"f", "r", "i", "d", "a", "y">>, 5>>,
  <<<<"f", "r", "i">>, 5>>,
  <<<<"s", "a", "t", "u", "r", "d", "a", "y">>, 6>>,
  <<<<"s", "a", "t">>, 6>>,
  <<<<"nichi", "you">>, 0>>,
  <<<<"nichi">>, 0>>,
  <<<<"getsu", "you">>, 1>>,
  <<<<"getsu">>, 1>>,
  <<<<"ka", "you">>, 2>>,
  <<<<"ka">>, 2>>,
  <<<<"sui", "you">>, 3>>,
  <<<<"sui">>, 3>>,
  <<<<"moku", "you">>, 4>>,
  <<<<"moku">>, 4>>,
  <<<<"kin", "you">>, 5>>,
  <<<<"kin">>, 5>>,
  <<<<"do", "you">>, 6>>,
  <<<<"do">>, 6>>>>

\* a field that takes * and */N only
CronFieldStarOnly ==
  Cat(<<Lit("*"), Opt(Cat(<<Lit("/"), Plus(Dg)>>))>>)

\* one field of CRON_REGEX: (\*(?:\/\d+)?|[0-9,\-\/]+)
CronField ==
  Alt(<<Cat(<<Lit("*"), Opt(Cat(<<Lit("/"), Plus(Dg)>>))>>),
        Plus(<<"set", Digits \cup {",", "-", "/"}>>)>>)

\* const CRON_REGEX
CRON_REGEX ==
  Cat(<<Bol, CronField, Plus(Ws), CronField, Plus(Ws), CronField, Plus(Ws),
        CronField, Plus(Ws), CronField, Eol>>)

isValidTime(hour, minute) == hour >= 0 /\ hour <= 23 /\ minute >= 0 /\ minute <= 59

\* a capture group that did not take part in the match is undefined
Captured(c) == c # NoCapture

\* parseTime: <<>> for null, else <<hour, minute>>
parseTime(timeStr) ==
  LET colonMatch == ReExec(Cat(<<Bol, Grp(1, Rep(Dg, 1, 2)), Lit(":"),
                                 Grp(2, Rep(Dg, 2, 2)), Eol>>), timeStr)
      ampmMatch == ReExec(Cat(<<Bol, Grp(1, Rep(Dg, 1, 2)), Star(Ws),
                                Grp(2, Alt(<<Word(<<"a", "m">>), Word(<<"p", "m">>)>>)), Eol>>),
                          toLowerCase(timeStr))
      jpMatch == ReExec(Cat(<<Bol, Grp(1, Rep(Dg, 1, 2)), Lit("ji"), Opt(Cat(<<Grp(2, Rep(Dg, 1, 2)), Lit("fun")>>)), Eol>>), timeStr)
      numMatch == ReExec(Cat(<<Bol, Grp(1, Rep(Dg, 1, 2)), Eol>>), timeStr)
  IN IF colonMatch # <<>>
       THEN LET hour == parseInt(colonMatch[1][1])
                minute == parseInt(colonMatch[1][2])
            IN IF ~isValidTime(hour, minute) THEN <<>> ELSE <<hour, minute>>
     ELSE IF ampmMatch # <<>>
       THEN LET hour == parseInt(ampmMatch[1][1])
                isPM == ampmMatch[1][2] = <<"p", "m">>
            IN IF hour < 1 \/ hour > 12 THEN <<>>
               ELSE IF isPM /\ hour # 12 THEN <<hour + 12, 0>>
               ELSE IF ~isPM /\ hour = 12 THEN <<0, 0>>
               ELSE <<hour, 0>>
     ELSE IF jpMatch # <<>>
       THEN LET hour == parseInt(jpMatch[1][1])
                minute == IF Captured(jpMatch[1][2]) THEN parseInt(jpMatch[1][2]) ELSE 0
            IN IF ~isValidTime(hour, minute) THEN <<>> ELSE <<hour, minute>>
     ELSE IF numMatch # <<>>
       THEN LET hour == parseInt(numMatch[1][1])
            IN IF hour < 0 \/ hour > 23 THEN <<>> ELSE <<hour, 0>>
     ELSE <<>>

\* a ParseResult; human_readable is not modelled
NoCron == <<"(undefined)">>
Parsed(cron) == [success |-> TRUE, cron_expression |-> cron]
ParseFailed == [success |-> FALSE, cron_expression |-> NoCron]

Sp == <<" ">>
\* `${a} ${b} ${c} ${d} ${e}`
CronText(a, b, c, d, e) == a \o Sp \o b \o Sp \o c \o Sp \o d \o Sp \o e
StarField == <<"*">>
\* the time of day, whatever the day of the week
TimeCronEveryDay(hour, minute, dow) ==
  CronText(numToText(minute), numToText(hour), StarField, StarField, StarField)

\* `${minute} ${hour} * * ${dow}`
TimeCron(hour, minute, dow) ==
  CronText(numToText(minute), numToText(hour), StarField, StarField, dow)

RECURSIVE StripZeros(_)
StripZeros(t) == IF Len(t) > 1 /\ Head(t) = "0" THEN StripZeros(Tail(t)) ELSE t

\* a > b for two runs of digits of any length, read as decimal numbers
DigitsGreater(a, b) ==
  LET x == StripZeros(a)
      y == StripZeros(b)
  IN IF Len(x) # Len(y) THEN Len(x) > Len(y)
     ELSE \E k \in 1..Len(x) :
            /\ DigitValue(x[k]) > DigitValue(y[k])
            /\ \A j \in 1..(k - 1) : x[j] = y[j]

\* A Date holds a time value of at most 8.64e15 ms from the epoch; past it,
\* new Date(...) is an Invalid Date.  The largest count of minutes and of hours
\* that now.getTime() + count * unit keeps within the range, for the clock Now
\* (read as UTC): (8640000000000000 - 1767609000000) \div 60000 and \div 3600000.
MaxMinutesLater == <<"1", "4", "3", "9", "7", "0", "5", "3", "9", "8", "5", "0">>
MaxHoursLater == <<"2", "3", "9", "9", "5", "0", "8", "9", "9", "7">>

\* `${NaN}`: what every getter of an Invalid Date prints as
NaNText == <<"N", "a", "N">>

\* `${target.getMinutes()} ${target.getHours()} ${target.getDate()} ${target.getMonth() + 1} *`
InstantCron(target) ==
  CronText(numToText(target.minutes), numToText(target.hours), numToText(target.date),
           numToText(target.month + 1), StarField)
\* the one-off rules' cron_expression for
\* target = new Date(now.getTime() + later * unit), later the parsed digits
LaterCron(now, digits, unitMinutes, limit) ==
  IF DigitsGreater(digits, limit)
  THEN CronText(NaNText, NaNText, NaNText, NaNText, StarField)
  ELSE InstantCron(AddMinutes(now, unitMinutes * parseInt(digits)))

\* `${minute} ${hour} ${tomorrow.getDate()} ${tomorrow.getMonth() + 1} *`
DateCron(hour, minute, day) ==
  CronText(numToText(minute), numToText(hour), numToText(day.date),
           numToText(day.month + 1), StarField)

\* the loop "every WEEKDAY at TIME": <<>> when no entry returns
RECURSIVE everyWeekdayRule(_, _)
everyWeekdayRule(normalized, k) ==
  IF k > Len(WEEKDAYS) THEN <<>>
  ELSE LET weekdayMatch ==
             ReExec(Cat(<<Word(<<"e", "v", "e", "r", "y">>), Plus(Ws), Word(WEEKDAYS[k][1]), Plus(Ws),
                          Opt(Cat(<<Word(<<"a", "t">>), Plus(Ws)>>)), Grp(1, Plus(Dot))>>),
                    normalized)
           time == parseTime(trim(weekdayMatch[1][1]))
       IN IF weekdayMatch # <<>> /\ time # <<>>
          THEN <<Parsed(TimeCron(time[1], time[2], numToText(WEEKDAYS[k][2])))>>
          ELSE everyWeekdayRule(normalized, k + 1)

\* the loop over WEEKDAYS for the Japanese weekly form
RECURSIVE jpWeekdayRule(_, _)
jpWeekdayRule(normalized, k) ==
  IF k > Len(WEEKDAYS) THEN <<>>
  ELSE LET jpWeekdayMatch ==
             ReExec(Cat(<<Word(<<"mai", "shuu">>), Word(WEEKDAYS[k][1]), Opt(Lit("nichi")), Star(Ws),
                          Grp(1, Rep(Dg, 1, 2)), Lit("ji"), Opt(Cat(<<Grp(2, Rep(Dg, 1, 2)), Lit("fun")>>))>>),
                    normalized)
       IN IF jpWeekdayMatch # <<>>
          THEN LET hour == parseInt(jpWeekdayMatch[1][1])
                   minute == IF Captured(jpWeekdayMatch[1][2])
                             THEN parseInt(jpWeekdayMatch[1][2]) ELSE 0
               IN <<Parsed(TimeCron(hour, minute, numToText(WEEKDAYS[k][2])))>>
          ELSE jpWeekdayRule(normalized, k + 1)

\* parseSchedule(input), called at local time now
parseSchedule(input, now) ==
  LET normalized == trim(toLowerCase(input))
      everyMinutesMatch ==
        ReExec(Cat(<<Word(<<"e", "v", "e", "r", "y">>), Plus(Ws), Grp(1, Plus(Dg)), Plus(Ws),
                     Word(<<"m", "i", "n", "u", "t", "e">>), Opt(Lit("s"))>>), normalized)
      jpMinutesMatch ==
        ReExec(Cat(<<Grp(1, Plus(Dg)), Lit("fun"),
                     Grp(2, Alt(<<Word(<<"hira-go", "hira-to">>), Lit("mai")>>))>>), normalized)
      everyHour ==
        \/ ReTest(Cat(<<Word(<<"e", "v", "e", "r", "y">>), Plus(Ws), Word(<<"h", "o", "u", "r">>)>>), normalized)
        \/ ReTest(Alt(<<Word(<<"mai", "ji">>),
                        Cat(<<Word(<<"1", "ji", "kan">>), Alt(<<Word(<<"hira-go", "hira-to">>), Lit("mai")>>)>>)>>),
                  normalized)
      everyHoursMatch ==
        ReExec(Cat(<<Word(<<"e", "v", "e", "r", "y">>), Plus(Ws), Grp(1, Plus(Dg)), Plus(Ws),
                     Word(<<"h", "o", "u", "r">>), Opt(Lit("s"))>>), normalized)
      jpHoursMatch ==
        ReExec(Cat(<<Grp(1, Plus(Dg)), Word(<<"ji", "kan">>),
                     Grp(2, Alt(<<Word(<<"hira-go", "hira-to">>), Lit("mai")>>))>>), normalized)
      dailyMatch ==
        ReExec(Cat(<<Grp(1, Alt(<<Cat(<<Word(<<"e", "v", "e", "r", "y">>), Plus(Ws), Word(<<"d", "a", "y">>)>>),
                                  Word(<<"d", "a", "i", "l", "y">>), Word(<<"mai", "nichi">>)>>)),
                     Star(Ws), Opt(Grp(2, Cat(<<Word(<<"a", "t">>), Plus(Ws)>>))),
                     Grp(3, Plus(Dot))>>), normalized)
      dailyTime == parseTime(trim(dailyMatch[1][3]))
      jpDailyMatch ==
        ReExec(Cat(<<Word(<<"mai", "nichi">>), Star(Ws), Grp(1, Rep(Dg, 1, 2)), Lit("ji"), Opt(Cat(<<Grp(2, Rep(Dg, 1, 2)), Lit("fun")>>))>>), normalized)
      everyWeekday == everyWeekdayRule(normalized, 1)
      jpWeekday == jpWeekdayRule(normalized, 1)
      weekdaysMatch ==
        ReExec(Cat(<<Word(<<"w", "e", "e", "k", "d", "a", "y">>), Opt(Lit("s")), Plus(Ws),
                     Opt(Cat(<<Word(<<"a", "t">>), Plus(Ws)>>)), Grp(1, Plus(Dot))>>), normalized)
      weekdaysTime == parseTime(trim(weekdaysMatch[1][1]))
      jpWeekdaysMatch ==
        ReExec(Cat(<<Word(<<"hei", "nichi">>), Star(Ws), Grp(1, Rep(Dg, 1, 2)), Lit("ji"), Opt(Cat(<<Grp(2, Rep(Dg, 1, 2)), Lit("fun")>>))>>), normalized)
      weekendMatch ==
        ReExec(Cat(<<Word(<<"w", "e", "e", "k", "e", "n", "d">>), Opt(Lit("s")), Plus(Ws),
                     Opt(Cat(<<Word(<<"a", "t">>), Plus(Ws)>>)), Grp(1, Plus(Dot))>>), normalized)
      weekendTime == parseTime(trim(weekendMatch[1][1]))
      jpWeekendMatch ==
        ReExec(Cat(<<Word(<<"shuu", "matsu">>), Star(Ws), Grp(1, Rep(Dg, 1, 2)), Lit("ji"), Opt(Cat(<<Grp(2, Rep(Dg, 1, 2)), Lit("fun")>>))>>), normalized)
      inMinutesMatch ==
        ReExec(Cat(<<Grp(1, Plus(Dg)), Word(<<"fun", "go">>)>>), normalized)
      inMinutesEngMatch ==
        ReExec(Cat(<<Word(<<"i", "n">>), Plus(Ws), Grp(1, Plus(Dg)), Plus(Ws),
                     Word(<<"m", "i", "n", "u", "t", "e">>), Opt(Lit("s"))>>), normalized)
      tomorrowMatch ==
        ReExec(Cat(<<Word(<<"mei", "nichi">>), Star(Ws), Grp(1, Rep(Dg, 1, 2)), Lit("ji"), Opt(Cat(<<Grp(2, Rep(Dg, 1, 2)), Lit("fun")>>))>>), normalized)
      tomorrowHour == parseInt(tomorrowMatch[1][1])
      tomorrowMinute == IF Captured(tomorrowMatch[1][2])
                        THEN parseInt(tomorrowMatch[1][2]) ELSE 0
      tomorrowEngMatch ==
        ReExec(Cat(<<Word(<<"t", "o", "m", "o", "r", "r", "o", "w">>), Plus(Ws),
                     Opt(Cat(<<Word(<<"a", "t">>), Plus(Ws)>>)), Grp(1, Plus(Dot))>>), normalized)
      tomorrowEngTime == parseTime(trim(tomorrowEngMatch[1][1]))
      simpleTimeColonMatch ==
        ReExec(Cat(<<Bol, Grp(1, Rep(Dg, 1, 2)), Lit(":"), Grp(2, Rep(Dg, 2, 2)), Eol>>),
               normalized)
      simpleJpTimeMatch ==
        ReExec(Cat(<<Bol, Grp(1, Rep(Dg, 1, 2)), Lit("ji"), Opt(Cat(<<Grp(2, Rep(Dg, 1, 2)), Lit("fun")>>)), Eol>>), normalized)
      simpleJpHour == parseInt(simpleJpTimeMatch[1][1])
      simpleJpMinute == IF Captured(simpleJpTimeMatch[1][2])
                        THEN parseInt(simpleJpTimeMatch[1][2]) ELSE 0
      inHoursMatch ==
        ReExec(Cat(<<Grp(1, Plus(Dg)), Word(<<"ji", "kan", "go">>)>>), normalized)
      inHoursEngMatch ==
        ReExec(Cat(<<Word(<<"i", "n">>), Plus(Ws), Grp(1, Plus(Dg)), Plus(Ws),
                     Word(<<"h", "o", "u", "r">>), Opt(Lit("s"))>>), normalized)
      InRange(m, lo, hi) == m # <<>> /\ parseInt(m[1][1]) >= lo /\ parseInt(m[1][1]) <= hi
      JpTimeOf(m) == <<parseInt(m[1][1]),
                       IF Captured(m[1][2]) THEN parseInt(m[1][2]) ELSE 0>>
  IN IF ReTest(CRON_REGEX, normalized) THEN Parsed(normalized)
     ELSE IF InRange(everyMinutesMatch, 1, 59)
       THEN Parsed(CronText(<<"*", "/">> \o numToText(parseInt(everyMinutesMatch[1][1])),
                            StarField, StarField, StarField, StarField))
     ELSE IF InRange(jpMinutesMatch, 1, 59)
       THEN Parsed(CronText(<<"*", "/">> \o numToText(parseInt(jpMinutesMatch[1][1])),
                            StarField, StarField, StarField, StarField))
     ELSE IF everyHour
       THEN Parsed(CronText(<<"0">>, StarField, StarField, StarField, StarField))
     ELSE IF InRange(everyHoursMatch, 1, 23)
       THEN Parsed(CronText(<<"0">>, <<"*", "/">> \o numToText(parseInt(everyHoursMatch[1][1])),
                            StarField, StarField, StarField))
     ELSE IF InRange(jpHoursMatch, 1, 23)
       THEN Parsed(CronText(<<"0">>, <<"*", "/">> \o numToText(parseInt(jpHoursMatch[1][1])),
                            StarField, StarField, StarField))
     ELSE IF dailyMatch # <<>> /\ dailyTime # <<>>
       THEN Parsed(TimeCron(dailyTime[1], dailyTime[2], StarField))
     ELSE IF jpDailyMatch # <<>>
       THEN Parsed(TimeCron(JpTimeOf(jpDailyMatch)[1], JpTimeOf(jpDailyMatch)[2], StarField))
     ELSE IF everyWeekday # <<>> THEN everyWeekday[1]
     ELSE IF jpWeekday # <<>> THEN jpWeekday[1]
     ELSE IF weekdaysMatch # <<>> /\ weekdaysTime # <<>>
       THEN Parsed(TimeCron(weekdaysTime[1], weekdaysTime[2], <<"1", "-", "5">>))
     ELSE IF jpWeekdaysMatch # <<>>
       THEN Parsed(TimeCron(JpTimeOf(jpWeekdaysMatch)[1], JpTimeOf(jpWeekdaysMatch)[2],
                            <<"1", "-", "5">>))
     ELSE IF weekendMatch # <<>> /\ weekendTime # <<>>
       THEN Parsed(TimeCron(weekendTime[1], weekendTime[2], <<"0", ",", "6">>))
     ELSE IF jpWeekendMatch # <<>>
       THEN Parsed(TimeCron(JpTimeOf(jpWeekendMatch)[1], JpTimeOf(jpWeekendMatch)[2],
                            <<"0", ",", "6">>))
     ELSE IF inMinutesMatch # <<>>
       THEN Parsed(LaterCron(now, inMinutesMatch[1][1], 1, MaxMinutesLater))
     ELSE IF inMinutesEngMatch # <<>>
       THEN Parsed(LaterCron(now, inMinutesEngMatch[1][1], 1, MaxMinutesLater))
     ELSE IF tomorrowMatch # <<>> /\ isValidTime(tomorrowHour, tomorrowMinute)
       THEN Parsed(DateCron(tomorrowHour, tomorrowMinute, AddDays(now, 1)))
     ELSE IF tomorrowEngMatch # <<>> /\ tomorrowEngTime # <<>>
       THEN Parsed(DateCron(tomorrowEngTime[1], tomorrowEngTime[2], AddDays(now, 1)))
     ELSE IF simpleTimeColonMatch # <<>>
             /\ isValidTime(parseInt(simpleTimeColonMatch[1][1]),
                            parseInt(simpleTimeColonMatch[1][2]))
       THEN Parsed(TimeCron(parseInt(simpleTimeColonMatch[1][1]),
                            parseInt(simpleTimeColonMatch[1][2]), StarField))
     ELSE IF simpleJpTimeMatch # <<>> /\ isValidTime(simpleJpHour, simpleJpMinute)
       THEN Parsed(TimeCron(simpleJpHour, simpleJpMinute, StarField))
     ELSE IF inHoursMatch # <<>>
       THEN Parsed(LaterCron(now, inHoursMatch[1][1], 60, MaxHoursLater))
     ELSE IF inHoursEngMatch # <<>>
       THEN Parsed(LaterCron(now, inHoursEngMatch[1][1], 60, MaxHoursLater))
     ELSE ParseFailed

(***************************************************************************)
(* Cron expressions: validation by node-cron and the shape test of the     *)
(* next-run calculator.                                                    *)
(***************************************************************************)
\* String.prototype.split(sep) for a one-character separator
RECURSIVE splitFrom(_, _, _)
splitFrom(t, sep, cur) ==
  IF t = <<>> THEN <<cur>>
  ELSE IF Head(t) = sep THEN <<cur>> \o splitFrom(Tail(t), sep, <<>>)
  ELSE splitFrom(Tail(t), sep, Append(cur, Head(t)))
split(t, sep) == splitFrom(t, sep, <<>>)

\* the ranges node-cron allows in the five fields
CronFieldMin == <<0, 0, 1, 1, 0>>
CronFieldMax == <<59, 23, 31, 12, 7>>

\* one comma-separated item of a field: *, */n, n, n-m or n-m/s, with every
\* number inside the field's range
cronItemValid(item, lo, hi) ==
  LET m == ReExec(Cat(<<Bol,
                        Alt(<<Lit("*"),
                              Cat(<<Grp(1, Plus(Dg)),
                                    Opt(Cat(<<Lit("-"), Grp(2, Plus(Dg))>>))>>)>>),
                        Opt(Cat(<<Lit("/"), Grp(3, Plus(Dg))>>)), Eol>>), item)
      InField(c) == Captured(c) => (parseInt(c) >= lo /\ parseInt(c) <= hi)
  IN /\ m # <<>>
     /\ InField(m[1][1])
     /\ InField(m[1][2])
     /\ (Captured(m[1][1]) /\ Captured(m[1][2])) => parseInt(m[1][1]) <= parseInt(m[1][2])
     /\ Captured(m[1][3]) => parseInt(m[1][3]) >= 1
     /\ (Captured(m[1][3]) /\ Captured(m[1][1])) => Captured(m[1][2])

cronFieldValid(field, lo, hi) ==
  LET items == split(field, ",")
  IN \A k \in 1..Len(items) : cronItemValid(items[k], lo, hi)

\* cron.validate(expression) of node-cron, for five-field expressions
cronValidate(expression) ==
  LET fields == split(expression, " ")
  IN /\ Len(fields) = 5
     /\ \A k \in 1..5 : cronFieldValid(fields[k], CronFieldMin[k], CronFieldMax[k])

\* parseInt(text, 10) of any text: the value of its leading digits, <<>>
\* for NaN
RECURSIVE leadingDigits(_)
leadingDigits(t) ==
  IF t # <<>> /\ Head(t) \in Digits THEN <<Head(t)>> \o leadingDigits(Tail(t)) ELSE <<>>
parseIntLoose(t) ==
  LET ds == leadingDigits(trimStart(t))
  IN IF ds = <<>> THEN <<>> ELSE <<parseInt(ds)>>

\* which branch of getNextRunTime returns for the expression: "null" when
\* none does, whatever the time is
getNextRunTimeBranch(cronExpression) ==
  LET parts == split(cronExpression, " ")
      minute == parts[1]
      hour == parts[2]
      dayOfMonth == parts[3]
      month == parts[4]
      everyMinuteMatch == ReExec(Cat(<<Bol, Lit("*"), Lit("/"), Grp(1, Plus(Dg)), Eol>>),
                                 minute)
      minuteNum == parseIntLoose(minute)
      hourNum == parseIntLoose(hour)
  IN IF Len(parts) # 5 THEN "null"
     ELSE IF minute = <<"*">> /\ hour = <<"*">> THEN "everyMinute"
     ELSE IF everyMinuteMatch # <<>> /\ hour = <<"*">> THEN "everyXMinutes"
     ELSE IF minuteNum # <<>> /\ hour = <<"*">> THEN "minuteOfHour"
     ELSE IF minuteNum # <<>> /\ hourNum # <<>>
             /\ dayOfMonth = <<"*">> /\ month = <<"*">> THEN "daily"
     ELSE "null"

(***************************************************************************)
(* getNextRunTime on an instant.  A Date here carries seconds and          *)
(* milliseconds as well; the zone has no daylight saving.                  *)
(***************************************************************************)
YearDays(y) == IF IsLeapYear(y) THEN 366 ELSE 365

RECURSIVE DaysToYear(_)
DaysToYear(y) == IF y <= 2026 THEN 0 ELSE DaysToYear(y - 1) + YearDays(y - 1)

RECURSIVE DaysToMonth(_, _)
DaysToMonth(y, mo) == IF mo = 0 THEN 0 ELSE DaysToMonth(y, mo - 1) + DaysInMonth(y, mo - 1)

\* the days from 2026-01-01 to the day of d
DayNumber(d) == DaysToYear(d.year) + DaysToMonth(d.year, d.month) + d.date - 1

\* Date.prototype.getDay: 0 is Sunday; 2026-01-01 is a Thursday
getDay(d) == (4 + DayNumber(d)) % 7

\* the time value of d, as <<day, millisecond of the day>>
TimeStamp(d) ==
  <<DayNumber(d), ((d.hours * 60 + d.minutes) * 60 + d.seconds) * 1000 + d.ms>>

\* a <= b and a < b on Dates
TimeLE(a, b) ==
  LET x == TimeStamp(a)
      y == TimeStamp(b)
  IN IF x[1] = y[1] THEN x[2] <= y[2] ELSE x[1] < y[1]
TimeLT(a, b) == TimeLE(a, b) /\ TimeStamp(a) # TimeStamp(b)

\* what getNextRunTime returns: null, a Date, or the Invalid Date
NoTime == [year |-> 0, month |-> 0, date |-> 0, hours |-> 0, minutes |-> 0,
           seconds |-> 0, ms |-> 0]
NullTime == [kind |-> "null", time |-> NoTime]
InvalidDate == [kind |-> "invalid", time |-> NoTime]
DateAt(d) == [kind |-> "date", time |-> d]

\* next.setSeconds(0); next.setMilliseconds(0)
ZeroSeconds(d) == [d EXCEPT !.seconds = 0, !.ms = 0]

\* the every-minute branch without the two setters that align the minute
everyMinuteNextUnaligned(now) ==
  DateAt(NormDate([now EXCEPT !.minutes = now.minutes + 1]))

\* * * * * *: next.setMinutes(next.getMinutes() + 1), seconds and ms zeroed
everyMinuteNext(now) ==
  DateAt(ZeroSeconds(NormDate([now EXCEPT !.minutes = now.minutes + 1])))

\* */X * * * *: Math.ceil((currentMinute + 1) / interval) * interval, carried
\* into the next hour as nextMinute % 60; interval 0 gives NaN and an
\* Invalid Date
everyXMinutesNext(now, interval) ==
  IF interval = 0 THEN InvalidDate
  ELSE LET currentMinute == now.minutes
           nextMinute == ((currentMinute + 1 + interval - 1) \div interval) * interval
       IN IF nextMinute >= 60
          THEN DateAt(ZeroSeconds(NormDate([now EXCEPT !.hours = now.hours + 1,
                                                       !.minutes = nextMinute % 60])))
          ELSE DateAt(ZeroSeconds(NormDate([now EXCEPT !.minutes = nextMinute])))

\* X * * * *: this hour's minute X, or the next hour's once it is reached
minuteOfHourNext(now, minuteNum) ==
  DateAt(ZeroSeconds(NormDate(
    [now EXCEPT !.hours = IF now.minutes >= minuteNum THEN now.hours + 1 ELSE now.hours,
                !.minutes = minuteNum])))

\* parseDayOfWeek: the days a day-of-week field names
parseDayOfWeek(dayOfWeek) ==
  LET rangeMatch == ReExec(Cat(<<Bol, Grp(1, Dg), Lit("-"), Grp(2, Dg), Eol>>), dayOfWeek)
      items == split(dayOfWeek, ",")
  IN IF ReTest(Cat(<<Bol, Dg, Eol>>), dayOfWeek) THEN {parseInt(dayOfWeek)}
     ELSE IF rangeMatch # <<>>
       THEN parseInt(rangeMatch[1][1])..parseInt(rangeMatch[1][2])
     ELSE IF \E k \in 1..Len(dayOfWeek) : dayOfWeek[k] = ","
       THEN {parseIntLoose(trim(items[k]))[1] :
               k \in {j \in 1..Len(items) : parseIntLoose(trim(items[j])) # <<>>}}
     ELSE 0..6

\* a search that settles on the following day whatever the target days
NextTargetDayTomorrow(next, targetDays) == 1

\* the loop for (i = 1; i <= 7; i++): the first i whose day is a target day,
\* or none when no day of the week is
NextTargetDay(next, targetDays) ==
  LET hits == {i \in 1..7 : getDay(AddDays(next, i)) \in targetDays}
  IN IF hits = {} THEN 0 ELSE CHOOSE i \in hits : \A j \in hits : i <= j

\* the daily branch kept on today's date whether or not the time has passed
dailyNextSameDay(now, hourNum, minuteNum, dayOfWeek) ==
  DateAt(NormDate(ZeroSeconds([now EXCEPT !.hours = hourNum, !.minutes = minuteNum])))

\* Y X * * D: today at X:Y, moved to the next day, or to the next day the
\* day-of-week field names, when that is not after now or not a named day
dailyNext(now, hourNum, minuteNum, dayOfWeek) ==
  LET next == NormDate(ZeroSeconds([now EXCEPT !.hours = hourNum, !.minutes = minuteNum]))
      targetDays == parseDayOfWeek(dayOfWeek)
      i == NextTargetDay(next, targetDays)
  IN IF TimeLE(next, now)
     THEN IF dayOfWeek # <<"*">>
          THEN DateAt(AddDays(next, IF i = 0 THEN 1 ELSE i))
          ELSE DateAt(AddDays(next, 1))
     ELSE IF dayOfWeek # <<"*">> /\ getDay(next) \notin targetDays
          THEN DateAt(AddDays(next, i))
          ELSE DateAt(next)

\* getNextRunTime(cronExpression) called at the instant now
getNextRunTime(cronExpression, now) ==
  LET parts == split(cronExpression, " ")
      minute == parts[1]
      hour == parts[2]
      dayOfMonth == parts[3]
      month == parts[4]
      dayOfWeek == parts[5]
      everyMinuteMatch == ReExec(Cat(<<Bol, Lit("*"), Lit("/"), Grp(1, Plus(Dg)), Eol>>),
                                 minute)
      minuteNum == parseIntLoose(minute)
      hourNum == parseIntLoose(hour)
  IN IF Len(parts) # 5 THEN NullTime
     ELSE IF minute = <<"*">> /\ hour = <<"*">> THEN everyMinuteNext(now)
     ELSE IF everyMinuteMatch # <<>> /\ hour = <<"*">>
       THEN everyXMinutesNext(now, parseInt(everyMinuteMatch[1][1]))
     ELSE IF minuteNum # <<>> /\ hour = <<"*">> THEN minuteOfHourNext(now, minuteNum[1])
     ELSE IF minuteNum # <<>> /\ hourNum # <<>>
             /\ dayOfMonth = <<"*">> /\ month = <<"*">>
       THEN dailyNext(now, hourNum[1], minuteNum[1], dayOfWeek)
     ELSE NullTime

(***************************************************************************)
(* executeSchedule                                                         *)
(***************************************************************************)
\* result.error: a text; the fixed messages are one-element texts
NoError == <<>>
ErrFailedToSpawn == <<"Failed to spawn claude">>
ErrTimeout == <<"Execution timeout (10 minutes)">>
\* `Process exited with code ${code}`
ErrExitedWithCode(code) == <<"Process exited with code ", code>>

\* exit codes 'close' reports: 0, non-zero, a negative errno after a failed
\* spawn, or null when the child was ended by a signal
ExitCodes == {"0", "1", "-2", "null"}
OutChars == {"a", " "}

\* const safeResolve = (result) => { if (resolved) return; ... }
SafeResolveUnguarded(result) ==
  /\ resolved' = TRUE
  /\ timeoutId' = "null"
  /\ resolveCalls' = Append(resolveCalls, result)

\* a safeResolve that leaves the 10-minute timeout armed
SafeResolveKeepsTimeout(result) ==
  IF resolved
  THEN UNCHANGED <<resolved, timeoutId, resolveCalls>>
  ELSE /\ resolved' = TRUE
       /\ timeoutId' = timeoutId
       /\ resolveCalls' = Append(resolveCalls, result)

SafeResolve(result) ==
  IF resolved
  THEN UNCHANGED <<resolved, timeoutId, resolveCalls>>
  ELSE /\ resolved' = TRUE
       /\ timeoutId' = "null"
       /\ resolveCalls' = Append(resolveCalls, result)

SpawnFailedResult ==
  [success |-> FALSE, output |-> <<>>, error |-> ErrFailedToSpawn, exitCode |-> "null"]

\* a 'close' handler that reports success whatever the exit code
CloseResultAlwaysSuccess(code) ==
  [success |-> TRUE, output |-> trim(stdout), error |-> NoError, exitCode |-> code]

\* the result built by the 'close' handler
CloseResult(code) ==
  IF code = "0"
  THEN [success |-> TRUE, output |-> trim(stdout), error |-> NoError, exitCode |-> code]
  ELSE [success |-> FALSE, output |-> trim(stdout),
        error |-> IF trim(stderr) # <<>> THEN trim(stderr) ELSE ErrExitedWithCode(code),
        exitCode |-> code]

\* a timeout result that drops what was captured
TimeoutResultWithoutOutput ==
  [success |-> FALSE, output |-> <<>>, error |-> ErrTimeout, exitCode |-> "null"]

\* the result built by the timeout handler
TimeoutResult ==
  [success |-> FALSE, output |-> trim(stdout), error |-> ErrTimeout, exitCode |-> "null"]

Signal(kind, code) == [kind |-> kind, code |-> code, out |-> stdout, err |-> stderr]

\* spawn() throws synchronously: safeResolve, return (nothing is registered)
SpawnThrows ==
  /\ epc = "entry"
  /\ epc' = "threw"
  /\ SafeResolve(SpawnFailedResult)
  /\ signals' = Append(signals, Signal("spawn", "null"))
  /\ UNCHANGED <<killTimer, stdout, stderr, child, closed, sent>>
  /\ UNCHANGED <<daemonVars, serverVars, parserVars>>

\* spawn() returns: the data, close and error handlers are registered and
\* the 10-minute timeout is armed
SpawnOk ==
  /\ epc = "entry"
  /\ epc' = "waiting"
  /\ child' = "running"
  /\ timeoutId' = "armed"
  /\ UNCHANGED <<resolved, killTimer, resolveCalls, stdout, stderr, closed, sent, signals>>
  /\ UNCHANGED <<daemonVars, serverVars, parserVars>>

\* proc.stdout.on('data')
StdoutData ==
  /\ epc = "waiting" /\ child = "running" /\ Len(stdout) < MaxOut
  /\ \E c \in OutChars : stdout' = Append(stdout, c)
  /\ UNCHANGED <<epc, resolved, timeoutId, killTimer, resolveCalls, stderr,
                 child, closed, sent, signals>>
  /\ UNCHANGED <<daemonVars, serverVars, parserVars>>

\* proc.stderr.on('data')
StderrData ==
  /\ epc = "waiting" /\ child = "running" /\ Len(stderr) < MaxOut
  /\ \E c \in OutChars : stderr' = Append(stderr, c)
  /\ UNCHANGED <<epc, resolved, timeoutId, killTimer, resolveCalls, stdout,
                 child, closed, sent, signals>>
  /\ UNCHANGED <<daemonVars, serverVars, parserVars>>

\* the child ends: by itself, or by a signal it was sent (SIGTERM may be
\* ignored, SIGKILL cannot)
ChildExits ==
  /\ epc = "waiting" /\ child = "running"
  /\ child' = "exited"
  /\ UNCHANGED <<epc, resolved, timeoutId, killTimer, resolveCalls, stdout, stderr,
                 closed, sent, signals>>
  /\ UNCHANGED <<daemonVars, serverVars, parserVars>>

\* proc.on('close', (code) => ...)
OnClose ==
  /\ epc = "waiting" /\ child \in {"exited", "failed"} /\ ~closed
  /\ closed' = TRUE
  /\ \E code \in ExitCodes :
       /\ child = "failed" => code = "-2"
       /\ (child = "exited" /\ sent = {}) => code \in {"0", "1"}
       /\ child = "exited" => code # "-2"
       /\ SafeResolve(CloseResult(code))
       /\ signals' = Append(signals, Signal("close", code))
  /\ UNCHANGED <<epc, killTimer, stdout, stderr, child, sent>>
  /\ UNCHANGED <<daemonVars, serverVars, parserVars>>

ErrorEvents == Cardinality({i \in 1..Len(signals) : signals[i].kind = "error"})

\* proc.on('error', (err) => ...): the spawn failed asynchronously, or a
\* later operation on the child failed
OnError ==
  /\ epc = "waiting" /\ ErrorEvents < MaxErrorEvents
  /\ child' = IF child = "running" /\ stdout = <<>> /\ stderr = <<>> /\ sent = {}
              THEN "failed" ELSE child
  /\ SafeResolve(SpawnFailedResult)
  /\ signals' = Append(signals, Signal("error", "null"))
  /\ UNCHANGED <<epc, killTimer, stdout, stderr, closed, sent>>
  /\ UNCHANGED <<daemonVars, serverVars, parserVars>>

\* proc.kill(signal): delivered only to a child that is still running
Kill(sig) == IF child = "running" THEN sent \cup {sig} ELSE sent

\* timeoutId = setTimeout(() => {...}, EXECUTION_TIMEOUT_MS)
OnTimeout ==
  /\ epc = "waiting" /\ timeoutId = "armed"
  /\ sent' = Kill("SIGTERM")
  /\ killTimer' = "armed"
  /\ SafeResolve(TimeoutResult)
  /\ signals' = Append(signals, Signal("timeout", "null"))
  /\ UNCHANGED <<epc, stdout, stderr, child, closed>>
  /\ UNCHANGED <<daemonVars, serverVars, parserVars>>

\* setTimeout(() => { if (!resolved) proc.kill('SIGKILL') }, 5000)
OnKillTimer ==
  /\ killTimer = "armed"
  /\ killTimer' = "fired"
  /\ sent' = IF ~resolved THEN Kill("SIGKILL") ELSE sent
  /\ UNCHANGED <<epc, resolved, timeoutId, resolveCalls, stdout, stderr,
                 child, closed, signals>>
  /\ UNCHANGED <<daemonVars, serverVars, parserVars>>

ExecAtRest ==
  /\ epc = "entry"
  /\ resolved = FALSE
  /\ timeoutId = "null"
  /\ killTimer = "none"
  /\ resolveCalls = <<>>
  /\ stdout = <<>>
  /\ stderr = <<>>
  /\ child = "none"
  /\ closed = FALSE
  /\ sent = {}
  /\ signals = <<>>

(***************************************************************************)
(* The texts and expressions that occur in the runs of Spec and SpecApi,   *)
(* with the parser's, the validator's and the calculator's results for     *)
(* them computed once.                                                     *)
(***************************************************************************)
\* the instant a protocol operation is served
Now == [year |-> 2026, month |-> 0, date |-> 5, hours |-> 10, minutes |-> 30]

TextEvery5Minutes == <<"e", "v", "e", "r", "y", " ", "5", " ", "m", "i", "n", "u", "t", "e", "s">>
TextEvery2Hours == <<"e", "v", "e", "r", "y", " ", "2", " ", "h", "o", "u", "r", "s">>
TextJpDaily25 == <<"mai", "nichi", "2", "5", "ji">>
TextDailyAt2500 == <<"e", "v", "e", "r", "y", " ", "d", "a", "y", " ", "a", "t", " ", "2", "5", ":", "0", "0">>
CronDaily9 == <<"0", " ", "9", " ", "*", " ", "*", " ", "*">>
CronEvery5 == <<"*", "/", "5", " ", "*", " ", "*", " ", "*", " ", "*">>
CronHour25 == <<"0", " ", "2", "5", " ", "*", " ", "*", " ", "*">>

CronEvery2Hours == <<"0", " ", "*", "/", "2", " ", "*", " ", "*", " ", "*">>

\* parseSchedule(text) at the instant Now, for the texts of the model
KnownTexts == {TextEvery5Minutes, TextEvery2Hours, TextJpDaily25, TextDailyAt2500}
ParsedTexts == [t \in KnownTexts |-> parseSchedule(t, Now)]

\* cron.validate(expression), for the expressions of the model
KnownCrons == {CronDaily9, CronEvery5, CronHour25, CronEvery2Hours}
ValidatedCrons == [c \in KnownCrons |-> cronValidate(c)]
validate(expression) == ValidatedCrons[expression]

\* the branch of getNextRunTime(expression) that returns
NextRunBranches == [c \in KnownCrons |-> getNextRunTimeBranch(c)]
nextRunBranch(expression) == NextRunBranches[expression]

(***************************************************************************)
(* Storage (SQLite, shared by the daemon and the server process).          *)
(* A schedule row keeps the columns the scheduler and the protocol layer   *)
(* read or write; name, description and created_at are not modelled.       *)
(* next_run_at holds the expression the Next-Run Calculator was given      *)
(* (the instant it returned is not modelled), <<>> for NULL.               *)
(* last_run_at holds the id of the log entry of the run that set it, 0 for *)
(* NULL.                                                                   *)
(***************************************************************************)
Ids == 1..MaxSchedules
Null == <<>>

\* SELECT * FROM schedules WHERE id = ?
getSchedule(id) == IF id \in DOMAIN schedules THEN <<schedules[id]>> ELSE <<>>

\* the ids of SELECT * FROM schedules WHERE enabled = 1
EnabledIds == {i \in DOMAIN schedules : schedules[i].enabled}

\* the sequences listing every element of a set once
Orderings(set) ==
  {q \in [1..Cardinality(set) -> set] : \A a, b \in DOMAIN q : a # b => q[a] # q[b]}

\* the change-fingerprint of the schedule set: a value that differs whenever
\* the set of schedules or a schedule's definition differs
getScheduleChecksum(table) ==
  <<[i \in DOMAIN table |->
       <<table[i].cron_expression, table[i].enabled, table[i].prompt,
         table[i].working_directory>>]>>

\* private lastChecksum: string = ''
NoChecksum == <<>>

\* UPDATE schedules SET next_run_at = ?, updated_at = ? WHERE id = ?
updateNextRunAt(table, id, nextRunAt) ==
  IF id \in DOMAIN table THEN [table EXCEPT ![id].next_run_at = nextRunAt] ELSE table

\* incrementRunCount(id, success), for the run whose log entry is logId
incrementRunCount(table, id, success, logId) ==
  IF id \notin DOMAIN table THEN table
  ELSE IF success
    THEN [table EXCEPT ![id].run_count = @ + 1, ![id].last_run_at = logId]
    ELSE [table EXCEPT ![id].error_count = @ + 1, ![id].last_run_at = logId]

\* addExecutionLog({schedule_id, status: 'running', ...}): the new table
addExecutionLog(table, scheduleId) ==
  [l \in DOMAIN table \cup {nextLogId} |->
     IF l = nextLogId
     THEN [schedule_id |-> scheduleId, status |-> "running", writes |-> 0,
           effects |-> <<"addExecutionLog">>, overlapped |-> FALSE]
     ELSE table[l]]

\* the log rows of the runs in flight for scheduleId, timer-fired or manual
InFlightLogs(scheduleId) ==
  {r.logId : r \in {x \in runs : x.id = scheduleId}}
    \cup {r.logId : r \in {x \in mruns : x.id = scheduleId}}

\* the table after a run of scheduleId created the row logId: when other
\* runs of the schedule are in flight, the new row and theirs are noted as
\* overlapped (history of the runs, not a column)
Overlap(table, scheduleId, logId) ==
  IF InFlightLogs(scheduleId) = {} THEN table
  ELSE [l \in DOMAIN table |->
          IF l \in InFlightLogs(scheduleId) \cup {logId}
          THEN [table[l] EXCEPT !.overlapped = TRUE] ELSE table[l]]

\* the storage statement a run executed, noted on the run's own log row
\* (effects is the history of the run, not a column)
Did(table, logId, statement) ==
  IF logId \in DOMAIN table
  THEN [table EXCEPT ![logId].effects = Append(@, statement)]
  ELSE table

\* updateExecutionLog(id, {status, ...}): UPDATE execution_logs SET ... WHERE id
updateExecutionLog(table, logId, status) ==
  IF logId \in DOMAIN table
  THEN [table EXCEPT ![logId].status = status, ![logId].writes = @ + 1,
                     ![logId].effects = Append(@, "updateExecutionLog")]
  ELSE table

\* DELETE FROM schedules WHERE id = ?
deleteSchedule(table, id) == [i \in DOMAIN table \ {id} |-> table[i]]
\* ... ON DELETE CASCADE on execution_logs.schedule_id
cascadeLogs(table, id) ==
  [l \in {k \in DOMAIN table : table[k].schedule_id # id} |-> table[l]]

(***************************************************************************)
(* Scheduler (scheduler.ts).                                               *)
(* jobs maps a schedule id to its node-cron task [expr, stopped].          *)
(* orphans holds the tasks that were dropped from the map while still      *)
(* armed.                                                                  *)
(***************************************************************************)
\* getNextRunTime(expr) as stored by toISOString(): Null when it returns null
NextRunOf(expr) == IF nextRunBranch(expr) = "null" THEN Null ELSE expr

\* job.stop() on the entry of id, when there is one
StopJob(map, id) ==
  IF id \in DOMAIN map THEN [map EXCEPT ![id].stopped = TRUE] ELSE map

\* the tasks that stay armed when the entries of ids leave the map
Dropped(map, ids) ==
  {[id |-> i, expr |-> map[i].expr] : i \in {k \in ids \cap DOMAIN map : ~map[k].stopped}}

\* for (const job of this.jobs.values()) job.stop()
StopAll(map) == [i \in DOMAIN map |-> [map[i] EXCEPT !.stopped = TRUE]]

NoJobs == [i \in {} |-> 0]

\* scheduleJob that arms the timer without cron.validate
scheduleJobUnvalidated(st, schedule, fail) ==
  LET stoppedOld == StopJob(st.jobs, schedule.id)
      set == [i \in DOMAIN stoppedOld \cup {schedule.id} |->
                IF i = schedule.id
                THEN [expr |-> schedule.cron_expression, stopped |-> FALSE]
                ELSE stoppedOld[i]]
  IN [st EXCEPT !.jobs = set,
                !.orphans = @ \cup Dropped(stoppedOld, {schedule.id}),
                !.returned = TRUE]

\* scheduleJob that replaces the entry without stopping the task it held
scheduleJobWithoutStop(st, schedule, fail) ==
  LET set == [i \in DOMAIN st.jobs \cup {schedule.id} |->
                IF i = schedule.id
                THEN [expr |-> schedule.cron_expression, stopped |-> FALSE]
                ELSE st.jobs[i]]
  IN IF ~validate(schedule.cron_expression)
       THEN [st EXCEPT !.returned = FALSE]
     ELSE [st EXCEPT !.jobs = set,
                     !.orphans = @ \cup Dropped(st.jobs, {schedule.id}),
                     !.schedules = IF NextRunOf(schedule.cron_expression) = Null THEN @
                                   ELSE updateNextRunAt(@, schedule.id,
                                                        NextRunOf(schedule.cron_expression)),
                     !.returned = TRUE]

\* scheduleJob(schedule) on the state st = [jobs, orphans, schedules, threw,
\* returned]; fail says that the storage statement of this call throws
scheduleJob(st, schedule, fail) ==
  LET stoppedOld == StopJob(st.jobs, schedule.id)
      nextRun == NextRunOf(schedule.cron_expression)
      set == [i \in DOMAIN stoppedOld \cup {schedule.id} |->
                IF i = schedule.id
                THEN [expr |-> schedule.cron_expression, stopped |-> FALSE]
                ELSE stoppedOld[i]]
  IN IF ~validate(schedule.cron_expression)
       THEN [st EXCEPT !.jobs = stoppedOld, !.returned = FALSE]
     ELSE IF nextRun = Null
       THEN [st EXCEPT !.jobs = set,
                       !.orphans = @ \cup Dropped(stoppedOld, {schedule.id}),
                       !.returned = TRUE]
     ELSE IF fail
       THEN [st EXCEPT !.jobs = set,
                       !.orphans = @ \cup Dropped(stoppedOld, {schedule.id}),
                       !.threw = TRUE]
     ELSE [st EXCEPT !.jobs = set,
                     !.orphans = @ \cup Dropped(stoppedOld, {schedule.id}),
                     !.schedules = updateNextRunAt(@, schedule.id, nextRun),
                     !.returned = TRUE]

\* for (const schedule of schedules) this.scheduleJob(schedule), where the
\* storage statement of the failAt-th call throws (0: none does)
RECURSIVE scheduleAll(_, _, _, _)
scheduleAll(st, list, k, failAt) ==
  IF k > Len(list) \/ st.threw THEN st
  ELSE scheduleAll(scheduleJob(st, list[k], k = failAt), list, k + 1, failAt)

\* an exception leaving a handler of the daemon: checkForChanges catches
\* it, start() lets it end the process, reload() hands it to its caller
AfterThrow(ctx) == IF ctx = "start" THEN "dead" ELSE "idle"

CanFail == failures < MaxFailures

\* history: the exception left reload() while checkForChanges was running it
Broke(ctx) == IF ctx = "poll" THEN [tick EXCEPT !.broken = TRUE] ELSE tick

\* the rows of getEnabledSchedules(), in some order
LoadEnabled ==
  \E q \in Orderings(EnabledIds) :
    dlist' = [k \in DOMAIN q |->
                [id |-> q[k], cron_expression |-> schedules[q[k]].cron_expression]]

\* start(): up to the rows of getEnabledSchedules()
start ==
  /\ dpc = "idle" /\ Len(calls) < MaxCalls
  /\ calls' = Append(calls, "start")
  /\ IF running
     THEN UNCHANGED <<running, dctx, dlist, dpc, failures>>
     ELSE /\ running' = TRUE
          /\ dctx' = "start"
          /\ \/ /\ LoadEnabled
                /\ dpc' = "register"
                /\ UNCHANGED failures
             \/ /\ CanFail
                /\ failures' = failures + 1
                /\ dpc' = AfterThrow("start")
                /\ UNCHANGED dlist
  /\ UNCHANGED <<schedules, logs, nextLogId, pollTimer, lastChecksum, jobs, orphans,
                 runs, fired, rejected, tick>>
  /\ UNCHANGED <<execVars, serverVars, parserVars>>

\* start() and reload(): the loop over the rows read
Register ==
  /\ dpc = "register"
  /\ \E failAt \in 0..Len(dlist) :
       LET st == scheduleAll([jobs |-> jobs, orphans |-> orphans,
                              schedules |-> schedules, threw |-> FALSE,
                              returned |-> TRUE],
                             dlist, 1, failAt)
       IN /\ failAt > 0 => CanFail /\ st.threw
          /\ jobs' = st.jobs
          /\ orphans' = st.orphans
          /\ schedules' = st.schedules
          /\ failures' = IF failAt > 0 THEN failures + 1 ELSE failures
          /\ dpc' = IF failAt > 0 THEN AfterThrow(dctx) ELSE "checksum"
          /\ tick' = IF failAt > 0 THEN Broke(dctx) ELSE tick
  /\ dlist' = <<>>
  /\ UNCHANGED <<logs, nextLogId, running, pollTimer, lastChecksum, dctx,
                 runs, fired, rejected>>
  /\ UNCHANGED <<execVars, serverVars, parserVars, calls>>

\* start() and reload(): this.lastChecksum = getScheduleChecksum(), and for
\* start() startPolling()
Snapshot ==
  /\ dpc = "checksum"
  /\ \/ /\ lastChecksum' = getScheduleChecksum(schedules)
        /\ pollTimer' = IF dctx = "start" THEN TRUE ELSE pollTimer
        /\ dpc' = "idle"
        /\ tick' = IF dctx = "poll" /\ tick.phase = "started"
                   THEN [tick EXCEPT !.phase = "done", !.broken = FALSE]
                   ELSE [tick EXCEPT !.broken = FALSE]
        /\ UNCHANGED failures
     \/ /\ CanFail
        /\ failures' = failures + 1
        /\ dpc' = AfterThrow(dctx)
        /\ tick' = Broke(dctx)
        /\ UNCHANGED <<lastChecksum, pollTimer>>
  /\ UNCHANGED <<schedules, logs, nextLogId, running, jobs, orphans, dctx, dlist,
                 runs, fired, rejected>>
  /\ UNCHANGED <<execVars, serverVars, parserVars, calls>>

\* reload(): stop every job, clear the map
ReloadClear ==
  /\ jobs' = NoJobs
  /\ orphans' = orphans \cup Dropped(StopAll(jobs), DOMAIN jobs)

\* the poll timer's callback, checkForChanges(): the checksum is compared
\* and, when it differs, reload() runs up to its read of the rows
Poll ==
  /\ dpc = "idle" /\ pollTimer
  /\ \/ /\ getScheduleChecksum(schedules) = lastChecksum
        /\ tick' = IF tick.phase = "edited" THEN [tick EXCEPT !.phase = "done"] ELSE tick
        /\ UNCHANGED <<jobs, orphans, dpc, dctx, failures>>
     \/ /\ getScheduleChecksum(schedules) # lastChecksum
        /\ ReloadClear
        /\ dpc' = "load"
        /\ dctx' = "poll"
        /\ tick' = IF tick.phase = "edited"
                   THEN [tick EXCEPT !.phase = "started"] ELSE tick
        /\ UNCHANGED failures
     \/ /\ CanFail
        /\ failures' = failures + 1
        /\ UNCHANGED <<jobs, orphans, dpc, dctx, tick>>
  /\ UNCHANGED <<schedules, logs, nextLogId, running, pollTimer, lastChecksum, dlist,
                 runs, fired, rejected>>
  /\ UNCHANGED <<execVars, serverVars, parserVars, calls>>

\* reload(): const schedules = this.storage.getEnabledSchedules()
Load ==
  /\ dpc = "load"
  /\ \/ /\ LoadEnabled
        /\ dpc' = "register"
        /\ UNCHANGED <<failures, tick>>
     \/ /\ CanFail
        /\ failures' = failures + 1
        /\ dpc' = AfterThrow(dctx)
        /\ tick' = Broke(dctx)
        /\ UNCHANGED dlist
  /\ UNCHANGED <<schedules, logs, nextLogId, running, pollTimer, lastChecksum, jobs,
                 orphans, dctx, runs, fired, rejected>>
  /\ UNCHANGED <<execVars, serverVars, parserVars, calls>>

\* the tasks that can fire for id
Armed(id) ==
  \/ id \in DOMAIN jobs /\ ~jobs[id].stopped
  \/ \E o \in orphans : o.id = id

\* if (!schedule || !schedule.enabled) return
Skipped(found) == IF found = <<>> THEN TRUE ELSE ~found[1].enabled

\* runJob without the check of the enabled flag: only a missing row skips
runJobStartUnchecked(id) ==
  LET found == getSchedule(id)
  IN \/ /\ found = <<>>
        /\ UNCHANGED <<logs, nextLogId, runs, rejected, failures>>
     \/ /\ found # <<>>
        /\ logs' = Overlap(addExecutionLog(logs, id), id, nextLogId)
        /\ nextLogId' = nextLogId + 1
        /\ runs' = runs \cup {[logId |-> nextLogId, id |-> id,
                               cron_expression |-> found[1].cron_expression,
                               prompt |-> found[1].prompt,
                               working_directory |-> found[1].working_directory]}
        /\ UNCHANGED <<rejected, failures>>

\* runJob that dispatches the prompt and directory of the row the daemon
\* registered at launch, whatever the row holds now
runJobStartAsLaunched(id) ==
  LET found == getSchedule(id)
      kept == [prompt |-> <<"p", "1">>, working_directory |-> Null]
  IN \/ /\ Skipped(found)
        /\ UNCHANGED <<logs, nextLogId, runs, rejected, failures>>
     \/ /\ ~Skipped(found)
        /\ logs' = Overlap(addExecutionLog(logs, id), id, nextLogId)
        /\ nextLogId' = nextLogId + 1
        /\ runs' = runs \cup {[logId |-> nextLogId, id |-> id,
                               cron_expression |-> found[1].cron_expression,
                               prompt |-> kept.prompt,
                               working_directory |-> kept.working_directory]}
        /\ UNCHANGED <<rejected, failures>>
     \/ /\ CanFail
        /\ failures' = failures + 1
        /\ rejected' = rejected + 1
        /\ UNCHANGED <<logs, nextLogId, runs>>

\* runJob(scheduleId) up to the call of executeSchedule; runs a timer's
\* callback, which carries the schedule's id alone
runJobStart(id) ==
  LET found == getSchedule(id)
  IN \/ /\ Skipped(found)
        /\ UNCHANGED <<logs, nextLogId, runs, rejected, failures>>
     \/ /\ ~Skipped(found)
        /\ logs' = Overlap(addExecutionLog(logs, id), id, nextLogId)
        /\ nextLogId' = nextLogId + 1
        /\ runs' = runs \cup {[logId |-> nextLogId, id |-> id,
                               cron_expression |-> found[1].cron_expression,
                               prompt |-> found[1].prompt,
                               working_directory |-> found[1].working_directory]}
        /\ UNCHANGED <<rejected, failures>>
     \/ \* getSchedule throws, or addExecutionLog does: runJob rejects
        /\ CanFail
        /\ failures' = failures + 1
        /\ rejected' = rejected + 1
        /\ UNCHANGED <<logs, nextLogId, runs>>

\* a node-cron task fires: async () => { await this.runJob(schedule.id) }
Fire(id) ==
  /\ dpc = "idle" /\ Armed(id) /\ Len(fired) < MaxFirings
  /\ fired' = Append(fired, id)
  /\ runJobStart(id)
  /\ UNCHANGED <<schedules, running, pollTimer, lastChecksum, jobs, orphans,
                 dpc, dctx, dlist, tick>>
  /\ UNCHANGED <<execVars, serverVars, parserVars, calls>>

\* runJob that gives up after the await when the timer that started it has
\* been replaced
runJobFinishUnlessReplaced(r, success, failAt, catchFailAt) ==
  LET status == IF success THEN "success" ELSE "failed"
      l1 == IF failAt = 1 THEN logs ELSE updateExecutionLog(logs, r.logId, status)
      s2 == IF failAt \in {1, 2} THEN schedules
            ELSE incrementRunCount(schedules, r.id, success, r.logId)
      s3 == IF failAt \in {1, 2, 3} \/ NextRunOf(r.cron_expression) = Null THEN s2
            ELSE updateNextRunAt(s2, r.id, NextRunOf(r.cron_expression))
      l2 == IF failAt \in {1, 2} THEN l1 ELSE Did(l1, r.logId, "incrementRunCount")
      l3 == IF failAt \in {1, 2, 3} \/ NextRunOf(r.cron_expression) = Null THEN l2
            ELSE Did(l2, r.logId, "updateNextRunAt")
      l4 == IF failAt = 0 \/ catchFailAt = 1 THEN l3
            ELSE updateExecutionLog(l3, r.logId, "failed")
      s5 == IF failAt = 0 \/ catchFailAt \in {1, 2} THEN s3
            ELSE incrementRunCount(s3, r.id, FALSE, r.logId)
      l5 == IF failAt = 0 \/ catchFailAt \in {1, 2} THEN l4
            ELSE Did(l4, r.logId, "incrementRunCount")
  IN IF r.id \notin DOMAIN jobs \/ jobs[r.id].expr # r.cron_expression
     THEN UNCHANGED <<logs, schedules, rejected, failures>>
     ELSE
     /\ logs' = l5
     /\ schedules' = s5
     /\ rejected' = IF failAt > 0 /\ catchFailAt > 0 THEN rejected + 1 ELSE rejected
     /\ failures' = failures + (IF failAt > 0 THEN 1 ELSE 0)
                             + (IF catchFailAt > 0 THEN 1 ELSE 0)

\* runJob after `await executeSchedule(schedule)`: the try block's three
\* storage statements, of which the failAt-th throws (0: none), and the
\* catch block's two, of which the catchFailAt-th throws
runJobFinish(r, success, failAt, catchFailAt) ==
  LET status == IF success THEN "success" ELSE "failed"
      l1 == IF failAt = 1 THEN logs ELSE updateExecutionLog(logs, r.logId, status)
      s2 == IF failAt \in {1, 2} THEN schedules
            ELSE incrementRunCount(schedules, r.id, success, r.logId)
      s3 == IF failAt \in {1, 2, 3} \/ NextRunOf(r.cron_expression) = Null THEN s2
            ELSE updateNextRunAt(s2, r.id, NextRunOf(r.cron_expression))
      l2 == IF failAt \in {1, 2} THEN l1 ELSE Did(l1, r.logId, "incrementRunCount")
      l3 == IF failAt \in {1, 2, 3} \/ NextRunOf(r.cron_expression) = Null THEN l2
            ELSE Did(l2, r.logId, "updateNextRunAt")
      l4 == IF failAt = 0 \/ catchFailAt = 1 THEN l3
            ELSE updateExecutionLog(l3, r.logId, "failed")
      s5 == IF failAt = 0 \/ catchFailAt \in {1, 2} THEN s3
            ELSE incrementRunCount(s3, r.id, FALSE, r.logId)
      l5 == IF failAt = 0 \/ catchFailAt \in {1, 2} THEN l4
            ELSE Did(l4, r.logId, "incrementRunCount")
  IN /\ logs' = l5
     /\ schedules' = s5
     /\ rejected' = IF failAt > 0 /\ catchFailAt > 0 THEN rejected + 1 ELSE rejected
     /\ failures' = failures + (IF failAt > 0 THEN 1 ELSE 0)
                             + (IF catchFailAt > 0 THEN 1 ELSE 0)

\* executeSchedule resolves for an in-flight run and runJob continues
ExecDone(r) ==
  /\ dpc = "idle" /\ r \in runs
  /\ \E success \in BOOLEAN, failAt \in 0..3, catchFailAt \in 0..2 :
       /\ failAt = 0 => catchFailAt = 0
       /\ failAt = 3 => NextRunOf(r.cron_expression) # Null
       /\ failures + (IF failAt > 0 THEN 1 ELSE 0)
                   + (IF catchFailAt > 0 THEN 1 ELSE 0) <= MaxFailures
       /\ runJobFinish(r, success, failAt, catchFailAt)
  /\ runs' = runs \ {r}
  /\ UNCHANGED <<nextLogId, running, pollTimer, lastChecksum, jobs, orphans,
                 dpc, dctx, dlist, fired, tick>>
  /\ UNCHANGED <<execVars, serverVars, parserVars, calls>>

\* stop() that leaves the poll timer running
stopKeepsPolling ==
  IF ~running
  THEN UNCHANGED <<pollTimer, jobs, orphans, running>>
  ELSE /\ UNCHANGED pollTimer
       /\ jobs' = NoJobs
       /\ orphans' = orphans \cup Dropped(StopAll(jobs), DOMAIN jobs)
       /\ running' = FALSE

\* stop()
stop ==
  IF ~running
  THEN UNCHANGED <<pollTimer, jobs, orphans, running>>
  ELSE /\ pollTimer' = FALSE
       /\ jobs' = NoJobs
       /\ orphans' = orphans \cup Dropped(StopAll(jobs), DOMAIN jobs)
       /\ running' = FALSE

\* the daemon's SIGINT/SIGTERM handler: scheduler.stop(), storage.close(),
\* process.exit(0); the runs in flight end with the process
Shutdown ==
  /\ dpc = "idle" /\ calls # <<>>
  /\ calls' = Append(calls, "stop")
  /\ stop
  /\ dpc' = "dead"
  /\ runs' = {}
  /\ UNCHANGED <<schedules, logs, nextLogId, lastChecksum, dctx, dlist,
                 fired, rejected, failures, tick>>
  /\ UNCHANGED <<execVars, serverVars, parserVars>>

(***************************************************************************)
(* The MCP server process (server.ts).  Its handlers run to completion in  *)
(* their own process; the statements they send to the database interleave  *)
(* with the daemon's.                                                      *)
(***************************************************************************)
\* an argument that was not given
NoArg == <<"(undefined)">>

\* the file system the server sees: one directory and one regular file
FsDirs == {<<"/", "d">>}
FsFiles == {<<"/", "f">>}
Cwd == <<"/", "d">>

\* path.isAbsolute (POSIX)
isAbsolute(p) == p # <<>> /\ p[1] = "/"

\* the segments of a path with '.', '..' and empty segments resolved
RECURSIVE normalizeSegments(_, _)
normalizeSegments(segs, acc) ==
  IF segs = <<>> THEN acc
  ELSE IF Head(segs) = <<>> \/ Head(segs) = <<".">>
    THEN normalizeSegments(Tail(segs), acc)
  ELSE IF Head(segs) = <<".", ".">>
    THEN normalizeSegments(Tail(segs),
                           IF acc = <<>> THEN acc ELSE SubSeq(acc, 1, Len(acc) - 1))
  ELSE normalizeSegments(Tail(segs), Append(acc, Head(segs)))

RECURSIVE joinSegments(_)
joinSegments(segs) ==
  IF segs = <<>> THEN <<>> ELSE <<"/">> \o Head(segs) \o joinSegments(Tail(segs))

\* path.resolve(p)
resolve(p) ==
  LET abs == IF isAbsolute(p) THEN p ELSE Cwd \o <<"/">> \o p
      segs == normalizeSegments(split(abs, "/"), <<>>)
  IN IF segs = <<>> THEN <<"/">> ELSE joinSegments(segs)

\* fs.existsSync(p), fs.statSync(p).isDirectory()
existsSync(p) == resolve(p) \in FsDirs \cup FsFiles
isDirectory(p) == resolve(p) \in FsDirs

\* validateWorkingDirectory(dir): TRUE when it returns an error message
validateWorkingDirectory(dir) ==
  IF dir = NoArg \/ dir = <<>> THEN FALSE
  ELSE IF ~isAbsolute(dir) THEN TRUE
  ELSE IF ~existsSync(dir) THEN TRUE
  ELSE ~isDirectory(dir)

\* a row as INSERTed by schedule_add
NewRow(cron, prompt, workingDir) ==
  [cron_expression |-> cron, prompt |-> prompt, working_directory |-> workingDir,
   enabled |-> TRUE, last_run_at |-> 0, next_run_at |-> NextRunOf(cron),
   run_count |-> 0, error_count |-> 0]

\* { ...schedule, ...updates }: the fields named in updates.fields replaced
Spread(row, updates) ==
  [f \in DOMAIN row |-> IF f \in updates.fields THEN updates.values[f] ELSE row[f]]

NoOp == [kind |-> "none"]
ServerIdle == op.kind = "none" /\ ops < MaxOps

\* the response of the operation that ends in this step
Respond(kind, args, isError) ==
  resp' = [n |-> resp.n + 1, kind |-> kind, args |-> args, isError |-> isError]

\* a statement of the server that changed the schedule definitions while
\* the daemon is up is an out-of-band edit
CronEdits(after) ==
  {i \in DOMAIN schedules \cap DOMAIN after :
     /\ schedules[i].enabled /\ after[i].enabled
     /\ schedules[i].cron_expression # after[i].cron_expression}

Edited(after) ==
  tick' = IF getScheduleChecksum(after) # getScheduleChecksum(schedules)
             /\ running /\ dpc # "dead"
          THEN [tick EXCEPT !.phase = "edited",
                            !.id = IF CronEdits(after) = {} THEN 0
                                   ELSE CHOOSE i \in CronEdits(after) : TRUE]
          ELSE tick

AddArgs ==
  { [schedule |-> TextEvery2Hours, prompt |-> <<"p", "2">>,
     working_directory |-> <<"/", "d", "/">>],
    [schedule |-> TextJpDaily25, prompt |-> <<"p", "2">>, working_directory |-> NoArg],
    [schedule |-> TextEvery5Minutes, prompt |-> <<"p", "2">>,
     working_directory |-> <<"/", "f">>] }

UpdateArgs ==
  { [schedule |-> TextEvery5Minutes, prompt |-> NoArg, working_directory |-> NoArg],
    [schedule |-> TextJpDaily25, prompt |-> NoArg, working_directory |-> NoArg],
    [schedule |-> TextDailyAt2500, prompt |-> NoArg, working_directory |-> NoArg],
    [schedule |-> NoArg, prompt |-> <<"p", "2">>, working_directory |-> NoArg],
    [schedule |-> NoArg, prompt |-> NoArg, working_directory |-> <<"d">>] }

\* handleScheduleAdd(input)
handleScheduleAdd(input) ==
  \E parseResult \in {ParsedTexts[input.schedule]} :
  \E workingDir \in {IF input.working_directory = NoArg \/ input.working_directory = <<>>
                     THEN Null ELSE resolve(input.working_directory)} :
  \E added \in {[i \in DOMAIN schedules \cup {nextId} |->
                   IF i = nextId
                   THEN NewRow(parseResult.cron_expression, input.prompt, workingDir)
                   ELSE schedules[i]]} :
     /\ ServerIdle /\ nextId <= MaxSchedules
     /\ ops' = ops + 1
     /\ IF validateWorkingDirectory(input.working_directory) \/ ~parseResult.success
        THEN /\ Respond("add", input, TRUE)
             /\ UNCHANGED <<schedules, nextId, tick>>
        ELSE /\ schedules' = added
             /\ nextId' = nextId + 1
             /\ Edited(added)
             /\ Respond("add", input, FALSE)
     /\ UNCHANGED <<logs, nextLogId, running, pollTimer, lastChecksum, jobs, orphans,
                    dpc, dctx, dlist, runs, fired, rejected, failures, op, mruns, calls>>
     /\ UNCHANGED <<execVars, parserVars>>

\* handleScheduleRemove({id})
handleScheduleRemove(id) ==
  /\ ServerIdle
  /\ ops' = ops + 1
  /\ IF getSchedule(id) = <<>>
     THEN /\ Respond("remove", id, TRUE)
          /\ UNCHANGED <<schedules, logs, tick>>
     ELSE /\ schedules' = deleteSchedule(schedules, id)
          /\ logs' = cascadeLogs(logs, id)
          /\ Edited(deleteSchedule(schedules, id))
          /\ Respond("remove", id, FALSE)
  /\ UNCHANGED <<nextId, nextLogId, running, pollTimer, lastChecksum, jobs, orphans,
                 dpc, dctx, dlist, runs, fired, rejected, failures, op, mruns, calls>>
  /\ UNCHANGED <<execVars, parserVars>>

\* the `updates` handleScheduleUpdate builds from the row it found
UpdatesOf(existing, args, parseResult) ==
  LET cron == IF args.schedule # NoArg THEN parseResult.cron_expression
              ELSE existing.cron_expression
  IN [fields |-> {"cron_expression", "next_run_at"}
                   \cup (IF args.prompt # NoArg THEN {"prompt"} ELSE {})
                   \cup (IF args.working_directory # NoArg
                         THEN {"working_directory"} ELSE {}),
      values |-> [existing EXCEPT
                    !.cron_expression = cron,
                    !.next_run_at = IF args.schedule # NoArg THEN NextRunOf(cron) ELSE @,
                    !.prompt = args.prompt,
                    !.working_directory =
                      IF args.working_directory = NoArg \/ args.working_directory = <<>>
                      THEN Null ELSE resolve(args.working_directory)]]

\* whether handleScheduleUpdate returns an error before it writes
UpdateRejected(args, parseResult) ==
  \/ args.schedule = NoArg /\ args.prompt = NoArg /\ args.working_directory = NoArg
  \/ validateWorkingDirectory(args.working_directory)
  \/ args.schedule # NoArg /\ ~parseResult.success

\* handleScheduleUpdate(args) up to its call of storage.updateSchedule
handleScheduleUpdate(id, args) ==
  \E existing \in {getSchedule(id)} :
  \E parseResult \in {IF args.schedule = NoArg THEN ParseFailed
                      ELSE ParsedTexts[args.schedule]} :
     /\ ServerIdle
     /\ ops' = ops + 1
     /\ IF existing = <<>> \/ UpdateRejected(args, parseResult)
        THEN /\ Respond("update", args, TRUE)
             /\ UNCHANGED op
        ELSE /\ op' = [kind |-> "update", id |-> id, args |-> args, step |-> "read",
                       updates |-> UpdatesOf(existing[1], args, parseResult), row |-> existing[1]]
             /\ UNCHANGED resp
     /\ UNCHANGED <<schedules, logs, nextId, nextLogId, running, pollTimer, lastChecksum,
                    jobs, orphans, dpc, dctx, dlist, runs, fired, rejected, failures,
                    tick, mruns, calls>>
     /\ UNCHANGED <<execVars, parserVars>>

\* handleSchedulePause({id}) and handleScheduleResume({id}) up to their call
\* of storage.updateSchedule
handleSchedulePauseResume(kind, id) ==
  LET existing == getSchedule(id)
  IN /\ ServerIdle
     /\ ops' = ops + 1
     /\ IF existing = <<>>
        THEN /\ Respond(kind, id, TRUE)
             /\ UNCHANGED op
        ELSE /\ op' = [kind |-> kind, id |-> id, args |-> id, step |-> "read",
                       updates |->
                         IF kind = "pause"
                         THEN [fields |-> {"enabled"},
                               values |-> [existing[1] EXCEPT !.enabled = FALSE]]
                         ELSE [fields |-> {"enabled", "next_run_at"},
                               values |-> [existing[1] EXCEPT
                                  !.enabled = TRUE,
                                  !.next_run_at = NextRunOf(existing[1].cron_expression)]],
                       row |-> existing[1]]
             /\ UNCHANGED resp
     /\ UNCHANGED <<schedules, logs, nextId, nextLogId, running, pollTimer, lastChecksum,
                    jobs, orphans, dpc, dctx, dlist, runs, fired, rejected, failures,
                    tick, mruns, calls>>
     /\ UNCHANGED <<execVars, parserVars>>

\* Storage.updateSchedule: const schedule = this.getSchedule(id)
updateScheduleRead ==
  /\ op.kind # "none" /\ op.step = "read"
  /\ UNCHANGED ops
  /\ IF getSchedule(op.id) = <<>>
     THEN /\ op' = NoOp
          /\ Respond(op.kind, op.args, FALSE)
     ELSE /\ op' = [op EXCEPT !.step = "write", !.row = getSchedule(op.id)[1]]
          /\ UNCHANGED resp
  /\ UNCHANGED <<schedules, logs, nextId, nextLogId, running, pollTimer, lastChecksum,
                 jobs, orphans, dpc, dctx, dlist, runs, fired, rejected, failures,
                 tick, mruns, calls>>
  /\ UNCHANGED <<execVars, parserVars>>

\* Storage.updateSchedule: UPDATE schedules SET (every column) WHERE id
updateScheduleWrite ==
  LET written == IF op.id \in DOMAIN schedules
                 THEN [schedules EXCEPT ![op.id] = Spread(op.row, op.updates)]
                 ELSE schedules
  IN /\ op.kind # "none" /\ op.step = "write"
     /\ UNCHANGED ops
     /\ schedules' = written
     /\ Edited(written)
     /\ op' = NoOp
     /\ Respond(op.kind, op.args, FALSE)
     /\ UNCHANGED <<logs, nextId, nextLogId, running, pollTimer, lastChecksum,
                    jobs, orphans, dpc, dctx, dlist, runs, fired, rejected, failures,
                    mruns, calls>>
     /\ UNCHANGED <<execVars, parserVars>>

TextDefault == <<"(", "d", "e", "f", "a", "u", "l", "t", ")">>

\* the fields the dry-run text is built from
DryRunPreview(schedule) ==
  [command |-> schedule.prompt,
   working_directory |-> IF schedule.working_directory = Null THEN TextDefault
                         ELSE schedule.working_directory,
   cron_expression |-> schedule.cron_expression,
   status |-> IF schedule.enabled THEN "Enabled" ELSE "Paused"]

\* handleScheduleRun without the dry_run branch
handleScheduleRunIgnoringDry(id, dryRun) ==
  LET schedule == getSchedule(id)
  IN /\ ServerIdle
     /\ ops' = ops + 1
     /\ IF schedule = <<>> \/ ~schedule[1].enabled
        THEN /\ Respond("run", id, TRUE)
             /\ UNCHANGED <<logs, nextLogId, mruns>>
        ELSE /\ logs' = Overlap(addExecutionLog(logs, id), id, nextLogId)
             /\ nextLogId' = nextLogId + 1
             /\ mruns' = mruns \cup {[logId |-> nextLogId, id |-> id,
                                      cron_expression |-> schedule[1].cron_expression]}
             /\ UNCHANGED resp
     /\ UNCHANGED <<schedules, nextId, running, pollTimer, lastChecksum, jobs, orphans,
                    dpc, dctx, dlist, runs, fired, rejected, failures, tick, op, calls>>
     /\ UNCHANGED <<execVars, parserVars>>

\* handleScheduleRun({id, dry_run}) up to `await executeSchedule(schedule)`
handleScheduleRun(id, dryRun) ==
  LET schedule == getSchedule(id)
  IN /\ ServerIdle
     /\ ops' = ops + 1
     /\ IF schedule = <<>>
        THEN /\ Respond("run", id, TRUE)
             /\ UNCHANGED <<logs, nextLogId, mruns>>
        ELSE IF dryRun
        THEN /\ Respond("dryrun", DryRunPreview(schedule[1]), FALSE)
             /\ UNCHANGED <<logs, nextLogId, mruns>>
        ELSE IF ~schedule[1].enabled
        THEN /\ Respond("run", id, TRUE)
             /\ UNCHANGED <<logs, nextLogId, mruns>>
        ELSE /\ logs' = Overlap(addExecutionLog(logs, id), id, nextLogId)
             /\ nextLogId' = nextLogId + 1
             /\ mruns' = mruns \cup {[logId |-> nextLogId, id |-> id,
                                      cron_expression |-> schedule[1].cron_expression]}
             /\ UNCHANGED resp
     /\ UNCHANGED <<schedules, nextId, running, pollTimer, lastChecksum, jobs, orphans,
                    dpc, dctx, dlist, runs, fired, rejected, failures, tick, op, calls>>
     /\ UNCHANGED <<execVars, parserVars>>

\* handleScheduleRun after the await: two storage statements, of which the
\* failAt-th throws (0: none); the exception becomes an error response
handleScheduleRunDone(r) ==
  /\ op.kind = "none" /\ r \in mruns
  /\ UNCHANGED ops
  /\ \E success \in BOOLEAN, failAt \in 0..2 :
       /\ failAt > 0 => CanFail
       /\ logs' = IF failAt = 1 THEN logs
                  ELSE IF failAt = 2
                  THEN updateExecutionLog(logs, r.logId,
                                          IF success THEN "success" ELSE "failed")
                  ELSE Did(updateExecutionLog(logs, r.logId,
                                              IF success THEN "success" ELSE "failed"),
                           r.logId, "incrementRunCount")
       /\ schedules' = IF failAt \in {1, 2} THEN schedules
                       ELSE incrementRunCount(schedules, r.id, success, r.logId)
       /\ failures' = IF failAt > 0 THEN failures + 1 ELSE failures
       /\ Respond("run", r.id, failAt > 0 \/ ~success)
  /\ mruns' = mruns \ {r}
  /\ UNCHANGED <<nextId, nextLogId, running, pollTimer, lastChecksum, jobs, orphans,
                 dpc, dctx, dlist, runs, fired, rejected, tick, op, calls>>
  /\ UNCHANGED <<execVars, parserVars>>

(***************************************************************************)
(* The Scheduler's other public methods, for callers that hold the object. *)
(***************************************************************************)
CanCall == dpc = "idle" /\ Len(calls) < MaxCalls

\* the schedule objects a caller hands to scheduleJob
ApiSchedules ==
  {[id |-> i, cron_expression |-> c] :
     i \in Ids, c \in {CronDaily9, CronEvery5, CronHour25}}

\* start() called by runForeground, once
Start == calls = <<>> /\ start

\* start() called at any time
ApiStart == start

\* stop() called at any time
ApiStop ==
  /\ CanCall
  /\ calls' = Append(calls, "stop")
  /\ stop
  /\ UNCHANGED <<schedules, logs, nextLogId, lastChecksum, dpc, dctx, dlist,
                 runs, fired, rejected, failures, tick>>
  /\ UNCHANGED <<execVars, serverVars, parserVars>>

\* scheduleJob(schedule) called at any time
ApiScheduleJob(schedule) ==
  /\ CanCall
  /\ calls' = Append(calls, "scheduleJob")
  /\ LET st == scheduleJob([jobs |-> jobs, orphans |-> orphans,
                            schedules |-> schedules, threw |-> FALSE,
                              returned |-> TRUE],
                           schedule, FALSE)
     IN /\ jobs' = st.jobs
        /\ orphans' = st.orphans
        /\ schedules' = st.schedules
  /\ UNCHANGED <<logs, nextLogId, running, pollTimer, lastChecksum, dpc, dctx, dlist,
                 runs, fired, rejected, failures, tick>>
  /\ UNCHANGED <<execVars, serverVars, parserVars>>

\* removeJob(scheduleId)
removeJob(id) ==
  IF id \in DOMAIN jobs
  THEN /\ jobs' = [i \in DOMAIN jobs \ {id} |-> jobs[i]]
       /\ orphans' = orphans \cup Dropped(StopJob(jobs, id), {id})
  ELSE UNCHANGED <<jobs, orphans>>

\* removeJob(scheduleId) called at any time
ApiRemoveJob(id) ==
  /\ CanCall
  /\ calls' = Append(calls, "removeJob")
  /\ removeJob(id)
  /\ UNCHANGED <<schedules, logs, nextLogId, running, pollTimer, lastChecksum,
                 dpc, dctx, dlist, runs, fired, rejected, failures, tick>>
  /\ UNCHANGED <<execVars, serverVars, parserVars>>

\* reload() called at any time: up to its read of the rows
ApiReload ==
  /\ CanCall
  /\ calls' = Append(calls, "reload")
  /\ ReloadClear
  /\ dpc' = "load"
  /\ dctx' = "reload"
  /\ UNCHANGED <<schedules, logs, nextLogId, running, pollTimer, lastChecksum, dlist,
                 runs, fired, rejected, failures, tick>>
  /\ UNCHANGED <<execVars, serverVars, parserVars>>

(***************************************************************************)
(* Specifications.                                                         *)
(***************************************************************************)
\* the database when the daemon is launched: one enabled schedule
InitialTable ==
  [i \in {1} |-> NewRow(CronDaily9, <<"p", "1">>, Null)]

DaemonAtRest ==
  /\ schedules = InitialTable
  /\ logs = [l \in {} |-> 0]
  /\ nextId = 2
  /\ nextLogId = 1
  /\ running = FALSE
  /\ pollTimer = FALSE
  /\ lastChecksum = NoChecksum
  /\ jobs = NoJobs
  /\ orphans = {}
  /\ dpc = "idle"
  /\ dctx = "none"
  /\ dlist = <<>>
  /\ runs = {}
  /\ fired = <<>>
  /\ rejected = 0
  /\ tick = [phase |-> "noedit", id |-> 0, broken |-> FALSE]
  /\ op = NoOp
  /\ ops = 0
  /\ mruns = {}
  /\ resp = [n |-> 0, kind |-> "none", args |-> 0, isError |-> FALSE]
  /\ calls = <<>>

\* ---- one call of parseSchedule on a time-of-day text ----
\* hours and minutes on both sides of the limits 23 and 59
HourTexts == {<<"9">>, <<"2", "3">>, <<"2", "4">>, <<"2", "5">>}
MinuteTexts == {<<"0", "0">>, <<"3", "0">>, <<"5", "9">>, <<"6", "0">>}

\* the English rules that take a time: daily, weekday name, weekdays, weekends
EnglishPrefixes ==
  { <<"d", "a", "i", "l", "y", " ", "a", "t", " ">>,
    <<"e", "v", "e", "r", "y", " ", "m", "o", "n", "d", "a", "y", " ", "a", "t", " ">>,
    <<"w", "e", "e", "k", "d", "a", "y", "s", " ", "a", "t", " ">>,
    <<"w", "e", "e", "k", "e", "n", "d", "s", " ", "a", "t", " ">> }

\* the Japanese rules that take a time: every day, every week on Monday,
\* weekdays, weekends
JapanesePrefixes ==
  { <<"mai", "nichi">>,
    <<"mai", "shuu", "getsu", "you">>,
    <<"hei", "nichi">>,
    <<"shuu", "matsu">> }

\* "daily at 9:30", ..., and their Japanese forms with and without minutes
ParseInputs ==
  {p \o h \o <<":">> \o mi : p \in EnglishPrefixes, h \in HourTexts, mi \in MinuteTexts}
    \cup {p \o h \o <<"ji">> \o mi \o <<"fun">> :
            p \in JapanesePrefixes, h \in HourTexts, mi \in MinuteTexts}
    \cup {p \o h \o <<"ji">> : p \in JapanesePrefixes, h \in HourTexts}

\* getNextRunTime is not called
CalcAtRest == cin = <<>> /\ cnow = Now /\ cout = <<>>

ParserAtRest == pin = <<>> /\ pout = <<>> /\ pagain = <<>> /\ CalcAtRest

\* const result = parseSchedule(input)
Parse ==
  /\ pout = <<>>
  /\ pout' = <<parseSchedule(pin, Now)>>
  /\ UNCHANGED <<pin, pagain, cin, cnow, cout>>
  /\ UNCHANGED <<execVars, daemonVars, serverVars>>

InitParse ==
  /\ ExecAtRest /\ DaemonAtRest /\ failures = 0
  /\ pin \in ParseInputs
  /\ pout = <<>> /\ pagain = <<>>
  /\ CalcAtRest

NextParse == Parse

SpecParse == InitParse /\ [][NextParse]_vars

\* ---- the schedule language: parseSchedule, and parseSchedule again on
\* ---- the expression it returned
\* the fields of the expressions handed to the passthrough: *, */N,
\* numbers, ranges, lists, a range with a step
CronFieldTexts ==
  << {<<"*">>, <<"*", "/", "5">>, <<"0">>, <<"3", "0">>, <<"0", ",", "3", "0">>,
      <<"0", "-", "3", "0", "/", "1", "0">>},
     {<<"*">>, <<"*", "/", "2">>, <<"9">>, <<"9", "-", "1", "7">>, <<"9", ",", "1", "8">>},
     {<<"*">>, <<"1">>, <<"1", "5">>},
     {<<"*">>, <<"1">>, <<"1", "-", "6">>},
     {<<"*">>, <<"1", "-", "5">>, <<"0", ",", "6">>} >>

CronInputs ==
  {CronText(a, b, c, d, e) :
     a \in CronFieldTexts[1], b \in CronFieldTexts[2], c \in CronFieldTexts[3],
     d \in CronFieldTexts[4], e \in CronFieldTexts[5]}

\* 'every N minutes', 'N分ごと', 'N分毎'
EveryMinutesText(n) ==
  <<"e", "v", "e", "r", "y", " ">> \o numToText(n) \o <<" ", "m", "i", "n", "u", "t", "e", "s">>
JpMinutesGotoText(n) == numToText(n) \o <<"fun", "hira-go", "hira-to">>
JpMinutesMaiText(n) == numToText(n) \o <<"fun", "mai">>

MinuteIntervalInputs ==
  UNION {{EveryMinutesText(n), JpMinutesGotoText(n), JpMinutesMaiText(n)} :
           n \in 0..MaxMinuteInterval}

\* 'every N hours', 'N時間ごと', 'N時間毎'
EveryHoursText(n) ==
  <<"e", "v", "e", "r", "y", " ">> \o numToText(n) \o <<" ", "h", "o", "u", "r", "s">>
JpHoursGotoText(n) == numToText(n) \o <<"ji", "kan", "hira-go", "hira-to">>
JpHoursMaiText(n) == numToText(n) \o <<"ji", "kan", "mai">>

HourIntervalInputs ==
  UNION {{EveryHoursText(n), JpHoursGotoText(n), JpHoursMaiText(n)} :
           n \in 0..MaxHourInterval}

\* counts for the one-off rules: some that stay in the hour, some that carry
\* into the next hour, day, month and year, and one far beyond
\* what a Date can hold
LaterCounts ==
  { <<"5">>, <<"9", "0">>, <<"1", "0", "0", "0">>, <<"4", "0", "0", "0", "0">>,
    <<"5", "3", "0", "0", "0", "0">>,
    <<"1", "0", "0", "0", "0", "0", "0", "0", "0", "0", "0", "0", "0", "0", "0", "0">> }

\* "5分後", "in 5 minutes", "5時間後", "in 5 hours", "明日9時", "tomorrow at 9:30"
OneOffInputs ==
  UNION {{ n \o <<"fun", "go">>,
           <<"i", "n", " ">> \o n \o <<" ", "m", "i", "n", "u", "t", "e", "s">> } :
           n \in LaterCounts}
    \cup UNION {{ n \o <<"ji", "kan", "go">>,
                  <<"i", "n", " ">> \o n \o <<" ", "h", "o", "u", "r", "s">> } :
                  n \in {c \in LaterCounts : Len(c) # 6}}
    \cup {<<"mei", "nichi", "9", "ji">>, <<"mei", "nichi", "9", "ji", "3", "0", "fun">>,
          <<"t", "o", "m", "o", "r", "r", "o", "w", " ", "a", "t", " ", "9", ":", "3", "0">>}

\* "9:30", "9時", "9時30分"
SimpleTimeInputs ==
  {<<"9", ":", "3", "0">>, <<"9", "ji">>, <<"9", "ji", "3", "0", "fun">>}

\* times of day for the weekday rules, as <<hour, minute>>
WeekdayTimes == {<<0, 0>>, <<9, 30>>, <<23, 5>>}

\* "9:30", "23:05"
ColonTimeText(t) ==
  numToText(t[1]) \o <<":">> \o (IF t[2] < 10 THEN <<"0">> ELSE <<>>) \o numToText(t[2])

\* "9時30分", and "0時" for a full hour
JpTimeText(t) ==
  numToText(t[1]) \o <<"ji">> \o (IF t[2] = 0 THEN <<>> ELSE numToText(t[2]) \o <<"fun">>)

\* "every monday at 9:30", "every mon 9:30": k is the entry of WEEKDAYS
EveryWeekdayText(k, at, t) ==
  <<"e", "v", "e", "r", "y", " ">> \o WEEKDAYS[k][1] \o <<" ">> \o at \o ColonTimeText(t)

\* "毎週月曜9時30分", "毎週月曜日 9時30分", "毎週月 9時30分"
JpWeekdayText(k, suffix, gap, t) ==
  <<"mai", "shuu">> \o WEEKDAYS[k][1] \o suffix \o gap \o JpTimeText(t)

EnglishDays == 1..14
JapaneseDays == 15..28
AtForms == {<<>>, <<"a", "t", " ">>}
Gaps == {<<>>, <<" ">>}
\* 月曜 may be followed by 日
DaySuffixes(k) == IF Len(WEEKDAYS[k][1]) = 2 THEN {<<>>, <<"nichi">>} ELSE {<<>>}

\* "weekdays at 9:30", "weekday 9:30", "weekend at 9:30", "weekends 9:30"
GroupText(word, at, t) == word \o <<" ">> \o at \o ColonTimeText(t)
WeekdaysWords == {<<"w", "e", "e", "k", "d", "a", "y">>, <<"w", "e", "e", "k", "d", "a", "y", "s">>}
WeekendWords == {<<"w", "e", "e", "k", "e", "n", "d">>, <<"w", "e", "e", "k", "e", "n", "d", "s">>}
\* "平日9時30分", "週末 9時30分"
JpGroupText(word, gap, t) == word \o gap \o JpTimeText(t)

WeekdayInputs ==
  {EveryWeekdayText(k, at, t) : k \in EnglishDays, at \in AtForms, t \in WeekdayTimes}
    \cup UNION {{JpWeekdayText(k, s, g, t) : s \in DaySuffixes(k), g \in Gaps, t \in WeekdayTimes} :
                  k \in JapaneseDays}
    \cup {GroupText(w, at, t) :
            w \in WeekdaysWords \cup WeekendWords, at \in AtForms, t \in WeekdayTimes}
    \cup {JpGroupText(w, g, t) :
            w \in {<<"hei", "nichi">>, <<"shuu", "matsu">>}, g \in Gaps, t \in WeekdayTimes}

LangInputs ==
  CronInputs \cup MinuteIntervalInputs \cup HourIntervalInputs
    \cup ParseInputs \cup OneOffInputs \cup SimpleTimeInputs \cup WeekdayInputs

\* parseSchedule(result.cron_expression) for a result that succeeded
Reparse ==
  /\ pout # <<>> /\ pagain = <<>>
  /\ pout[1].success
  /\ pagain' = <<parseSchedule(pout[1].cron_expression, Now)>>
  /\ UNCHANGED <<pin, pout, cin, cnow, cout>>
  /\ UNCHANGED <<execVars, daemonVars, serverVars>>

InitLang ==
  /\ ExecAtRest /\ DaemonAtRest /\ failures = 0
  /\ pin \in LangInputs
  /\ pout = <<>> /\ pagain = <<>>
  /\ CalcAtRest

NextLang ==
  \/ Parse
  \/ Reparse

SpecLang == InitLang /\ [][NextLang]_vars

(***************************************************************************)
(* getNextRunTime applied to an expression at an instant                   *)
(***************************************************************************)
Hours == 0..23
Minutes == 0..59

\* `M H * * *`
DailyCron(h, mi) == CronText(numToText(mi), numToText(h), StarField, StarField, StarField)
DailyInputs == {DailyCron(h, mi) : h \in Hours, mi \in Minutes}

\* `*/N * * * *`
StepMinutesCron(n) ==
  CronText(<<"*", "/">> \o numToText(n), StarField, StarField, StarField, StarField)
StepInputs == {StepMinutesCron(n) : n \in 0..MaxMinuteInterval}

EveryMinuteCron == CronText(StarField, StarField, StarField, StarField, StarField)

\* five fields, each in the forms a cron expression uses: a star, a number, a
\* step, a list; the day of the week also a range
FieldShapes ==
  << {<<"*">>, <<"0">>, <<"*", "/", "5">>, <<"0", ",", "3", "0">>},
     {<<"*">>, <<"9">>, <<"9", ",", "1", "7">>},
     {<<"*">>, <<"1", "5">>},
     {<<"*">>, <<"6">>},
     {<<"*">>, <<"1">>, <<"1", "-", "5">>, <<"0", ",", "6">>} >>
ShapeInputs ==
  {CronText(a, b, c, d, e) :
     a \in FieldShapes[1], b \in FieldShapes[2], c \in FieldShapes[3],
     d \in FieldShapes[4], e \in FieldShapes[5]}

\* texts that are not five fields, or whose fields are not cron tokens
MalformedInputs ==
  { <<>>,
    <<"*", " ", "*", " ", "*", " ", "*">>,
    <<"*", " ", "*", " ", "*", " ", "*", " ", "*", " ", "*">>,
    <<"0", " ", "9", " ", " ", "*", " ", "*", " ", "*">>,
    <<"h", "e", "l", "l", "o">>,
    <<"e", "v", "e", "r", "y", " ", "5", " ", "m", "i", "n", "u", "t", "e", "s">>,
    <<"a", " ", "b", " ", "c", " ", "d", " ", "e">>,
    <<"*", " ", "*", " ", "x", " ", "y", " ", "z">>,
    <<"5", "x", " ", "*", " ", "*", " ", "*", " ", "*">>,
    <<"x", " ", "9", " ", "*", " ", "*", " ", "*">> }

\* day-of-week fields with the weekdays each names: a digit 0..6, a range a-b
\* with a <= b, a list of digits
DayRange(a, b) == [text |-> <<DigitChar(a), "-", DigitChar(b)>>, days |-> a..b]
WeeklyDays ==
  {[text |-> <<DigitChar(n)>>, days |-> {n}] : n \in 0..6}
    \cup {DayRange(ab[1], ab[2]) : ab \in {x \in (0..6) \X (0..6) : x[1] <= x[2]}}
    \cup { [text |-> <<"0", ",", "6">>, days |-> {0, 6}],
           [text |-> <<"6", ",", "0">>, days |-> {0, 6}],
           [text |-> <<"1", ",", "3", ",", "5">>, days |-> {1, 3, 5}],
           [text |-> <<"2", ",", "2">>, days |-> {2}],
           [text |-> <<"0", ",", "1", ",", "2", ",", "3", ",", "4", ",", "5", ",", "6">>,
            days |-> 0..6] }
WeeklyHours == {0, 10, 23}
WeeklyMinutes == {0, 30, 59}

\* `M H * * D`
WeeklyCron(h, mi, d) == CronText(numToText(mi), numToText(h), StarField, StarField, d)
WeeklyInputs ==
  {WeeklyCron(h, mi, d.text) : h \in WeeklyHours, mi \in WeeklyMinutes, d \in WeeklyDays}

\* texts of the recurring rules of parseSchedule: every N minutes, every
\* hour, every N hours, daily, weekly, weekdays, weekend, a bare time
EveryDayAtText(t) ==
  <<"e", "v", "e", "r", "y", " ", "d", "a", "y", " ", "a", "t", " ">> \o ColonTimeText(t)
RecurringTexts ==
  UNION {{EveryMinutesText(n), JpMinutesMaiText(n)} : n \in 1..59}
    \cup {<<"e", "v", "e", "r", "y", " ", "h", "o", "u", "r">>, <<"mai", "ji">>}
    \cup UNION {{EveryHoursText(n), JpHoursGotoText(n)} : n \in 2..23}
    \cup {EveryDayAtText(t) : t \in WeekdayTimes}
    \cup {<<"mai", "nichi">> \o JpTimeText(t) : t \in WeekdayTimes}
    \cup {EveryWeekdayText(k, <<"a", "t", " ">>, <<9, 30>>) : k \in EnglishDays}
    \cup {JpWeekdayText(k, <<>>, <<" ">>, <<23, 5>>) : k \in JapaneseDays}
    \cup {GroupText(w, <<"a", "t", " ">>, <<9, 30>>) : w \in WeekdaysWords \cup WeekendWords}
    \cup {JpGroupText(w, <<>>, <<0, 0>>) : w \in {<<"hei", "nichi">>, <<"shuu", "matsu">>}}
    \cup SimpleTimeInputs

\* the expressions parseSchedule returns for them
EmittedInputs ==
  {parseSchedule(t, Now).cron_expression :
     t \in {x \in RecurringTexts : parseSchedule(x, Now).success}}

CalcInputs ==
  DailyInputs \cup StepInputs \cup {EveryMinuteCron} \cup ShapeInputs \cup MalformedInputs
    \cup WeeklyInputs \cup EmittedInputs

\* the instants of the calls: every minute of one hour, and the first and last
\* millisecond of the first and last minute of the day on an ordinary day, at
\* the end of a month and at the end of a year
DateOn(y, mo, d, h, mi, s, ms) ==
  [year |-> y, month |-> mo, date |-> d, hours |-> h, minutes |-> mi,
   seconds |-> s, ms |-> ms]
CalcTimes ==
  {DateOn(2026, 0, 5, 10, mi, 30, 500) : mi \in Minutes}
    \cup {DateOn(2026, day[1], day[2], h, mi, s[1], s[2]) :
            day \in {<<0, 5>>, <<0, 31>>, <<11, 31>>}, h \in {0, 23}, mi \in {0, 59},
            s \in {<<0, 0>>, <<59, 999>>}}

\* const next = getNextRunTime(cronExpression)
Calc ==
  /\ cout = <<>>
  /\ cout' = <<getNextRunTime(cin, cnow)>>
  /\ UNCHANGED <<pin, pout, pagain, cin, cnow>>
  /\ UNCHANGED <<execVars, daemonVars, serverVars>>

InitCalc ==
  /\ ExecAtRest /\ DaemonAtRest /\ failures = 0
  /\ pin = <<>> /\ pout = <<>> /\ pagain = <<>>
  /\ cin \in CalcInputs
  /\ cnow \in CalcTimes
  /\ cout = <<>>

NextCalc == Calc

SpecCalc == InitCalc /\ [][NextCalc]_vars

InitExec == ExecAtRest /\ DaemonAtRest /\ ParserAtRest /\ failures = 0

NextExec ==
  \/ SpawnThrows
  \/ SpawnOk
  \/ StdoutData
  \/ StderrData
  \/ ChildExits
  \/ OnClose
  \/ OnError
  \/ OnTimeout
  \/ OnKillTimer

SpecExec == InitExec /\ [][NextExec]_vars

Init == ExecAtRest /\ DaemonAtRest /\ ParserAtRest /\ failures = 0

Next ==
  \/ Start
  \/ Load
  \/ Register
  \/ Snapshot
  \/ Poll
  \/ \E id \in Ids : Fire(id)
  \/ \E r \in runs : ExecDone(r)
  \/ Shutdown
  \/ \E input \in AddArgs : handleScheduleAdd(input)
  \/ \E id \in Ids : handleScheduleRemove(id)
  \/ \E id \in Ids, args \in UpdateArgs : handleScheduleUpdate(id, args)
  \/ \E id \in Ids, kind \in {"pause", "resume"} : handleSchedulePauseResume(kind, id)
  \/ updateScheduleRead
  \/ updateScheduleWrite
  \/ \E id \in Ids, dryRun \in BOOLEAN : handleScheduleRun(id, dryRun)
  \/ \E r \in mruns : handleScheduleRunDone(r)

Spec == Init /\ [][Next]_vars

\* no storage statement fails under SpecApi
InitApi == ExecAtRest /\ DaemonAtRest /\ ParserAtRest /\ failures = MaxFailures

NextApi ==
  \/ ApiStart
  \/ ApiStop
  \/ \E schedule \in ApiSchedules : ApiScheduleJob(schedule)
  \/ \E id \in Ids : ApiRemoveJob(id)
  \/ ApiReload
  \/ Load
  \/ Register
  \/ Snapshot
  \/ Poll
  \/ \E id \in Ids : Fire(id)
  \/ \E r \in runs : ExecDone(r)
  \/ \E id \in Ids : handleScheduleRemove(id)

SpecApi == InitApi /\ [][NextApi]_vars

(***************************************************************************)
(* Claims about executeSchedule (checked under SpecExec).                  *)
(***************************************************************************)
\* what the handler of a completion signal resolves with, from the signal's
\* kind, exit code and the output captured when it occurred
ResultOfSignal(sig) ==
  CASE sig.kind \in {"spawn", "error"} ->
         [success |-> FALSE, output |-> <<>>, error |-> ErrFailedToSpawn,
          exitCode |-> "null"]
    [] sig.kind = "timeout" ->
         [success |-> FALSE, output |-> trim(sig.out), error |-> ErrTimeout,
          exitCode |-> "null"]
    [] sig.kind = "close" /\ sig.code = "0" ->
         [success |-> TRUE, output |-> trim(sig.out), error |-> NoError,
          exitCode |-> "0"]
    [] OTHER ->
         [success |-> FALSE, output |-> trim(sig.out),
          error |-> IF trim(sig.err) = <<>> THEN ErrExitedWithCode(sig.code)
                    ELSE trim(sig.err),
          exitCode |-> sig.code]

\* C1: whatever the order of close, error, spawn exception and timeout, the
\* promise's resolve() is called exactly once, with the result of the first
\* completion signal; later signals add no call and change nothing.
C1_ResolvedOnceByFirstSignal ==
  /\ signals = <<>> => resolveCalls = <<>> /\ ~resolved
  /\ signals # <<>> => resolveCalls = <<ResultOfSignal(signals[1])>> /\ resolved

\* a timeout followed by the child's close: the second signal is a no-op
C1_Witness ==
  /\ Len(signals) >= 2
  /\ signals[1].kind = "timeout"
  /\ signals[2].kind = "close"
  /\ Len(resolveCalls) = 1

\* C2: when the grace timer runs 5 s after the timeout's SIGTERM and the
\* child is still running, SIGKILL is sent to it.
C2_SigkillAfterGrace ==
  [][(killTimer = "armed" /\ killTimer' = "fired" /\ child = "running")
       => "SIGKILL" \in sent']_vars

(***************************************************************************)
(* Claims about the daemon, the storage and the server (checked under Spec *)
(* and SpecApi).                                                           *)
(***************************************************************************)
\* C3: every execution log entry starts 'running' and its status is written
\* exactly once more, to 'success' or 'failed'; a terminal log is never
\* written again, on any path of the run.
C3_LogStatusWrittenOnce ==
  \A l \in DOMAIN logs :
    \/ logs[l].status = "running" /\ logs[l].writes = 0
    \/ logs[l].status \in {"success", "failed"} /\ logs[l].writes = 1

\* C4: after the expression of an enabled schedule was changed in storage
\* while the daemon runs, with no further edit, once a poll tick that began
\* after the edit has ended the timer of that schedule uses the new
\* expression and no timer of the old expression is armed (no storage
\* statement having failed, the new expression being one node-cron accepts).
C4_TimerFollowsEdit ==
  (/\ tick.phase = "done" /\ tick.id \in DOMAIN schedules
   /\ dpc = "idle" /\ running /\ failures = 0
   /\ schedules[tick.id].enabled
   /\ validate(schedules[tick.id].cron_expression))
  => /\ tick.id \in DOMAIN jobs
     /\ ~jobs[tick.id].stopped
     /\ jobs[tick.id].expr = schedules[tick.id].cron_expression
     /\ \A o \in orphans : o.id # tick.id

\* C5: no step lowers the run_count or the error_count of a stored
\* schedule.
C5_CountersNeverDecrease ==
  [][\A id \in DOMAIN schedules \cap DOMAIN schedules' :
       /\ schedules'[id].run_count >= schedules[id].run_count
       /\ schedules'[id].error_count >= schedules[id].error_count]_vars

\* C6: in every state of the running daemon, each armed timer of the job
\* map belongs to a stored schedule whose enabled flag is true.
C6_ArmedTimersAreEnabled ==
  dpc # "dead" =>
    \A id \in DOMAIN jobs :
      ~jobs[id].stopped => id \in DOMAIN schedules /\ schedules[id].enabled

\* C7: a timer firing for a schedule that is missing or disabled in storage
\* creates no log entry, starts no dispatch and leaves every schedule row
\* (counters, last_run_at, next_run_at) as it was.
C7_SkippedRunLeavesNoTrace ==
  [][(/\ Len(fired') = Len(fired) + 1
      /\ Skipped(getSchedule(fired'[Len(fired')])))
       => /\ logs' = logs
          /\ nextLogId' = nextLogId
          /\ runs' = runs
          /\ schedules' = schedules]_vars

\* the timer of a schedule fired and the run was skipped: no log entry was
\* ever created and no storage statement threw
C7_Witness ==
  /\ Len(fired) >= 1
  /\ nextLogId = 1
  /\ failures = 0
  /\ \/ fired[1] \notin DOMAIN schedules
     \/ ~schedules[fired[1]].enabled

\* C8: stop() on a running scheduler stops every registered timer, empties
\* the job map, cancels the poll and clears running; stop() on a scheduler
\* that is not running changes nothing.
C8_StopTearsDownAndIsIdempotent ==
  [][(Len(calls') = Len(calls) + 1 /\ calls'[Len(calls')] = "stop")
       => IF running
          THEN /\ jobs' = NoJobs
               /\ orphans' = orphans
               /\ pollTimer' = FALSE
               /\ running' = FALSE
          ELSE UNCHANGED <<schedules, logs, running, pollTimer, lastChecksum, jobs,
                           orphans, dpc, dctx, dlist, runs>>]_vars

\* start(), then stop() tearing down the registered timer, then stop() again
C8_Witness ==
  /\ calls = <<"start", "stop", "stop">>
  /\ ~running /\ ~pollTimer
  /\ jobs = NoJobs

\* C9: the promise returned by runJob never rejects, whichever storage
\* statement of the run fails.
C9_RunJobNeverRejects == rejected = 0

\* the input of a schedule_add or schedule_update call is invalid: the
\* text does not parse or names a time out of range, or working_directory
\* is not absolute, does not exist or is not a directory
C10_InvalidInput(args) ==
  \/ /\ args.schedule # NoArg
     /\ \/ ~ParsedTexts[args.schedule].success
        \/ ~validate(ParsedTexts[args.schedule].cron_expression)
  \/ /\ args.working_directory # NoArg /\ args.working_directory # <<>>
     /\ \/ ~isAbsolute(args.working_directory)
        \/ ~existsSync(args.working_directory)
        \/ ~isDirectory(args.working_directory)

\* C10: a schedule_add or schedule_update call with invalid input answers
\* with an error and leaves every stored schedule as it was.
C10_InvalidInputRejectedBeforeWrite ==
  [][(/\ resp'.n # resp.n
      /\ resp'.kind \in {"add", "update"}
      /\ C10_InvalidInput(resp'.args))
       => resp'.isError /\ schedules' = schedules]_vars

\* C11: scheduleJob with an expression cron.validate refuses returns false,
\* leaves no armed timer for the schedule (none for the expression, none
\* for a default) and leaves every stored row as it was.
C11_InvalidExpressionNotArmed ==
  [][\A s \in ApiSchedules :
       (~validate(s.cron_expression) /\ ApiScheduleJob(s))
         => /\ ~scheduleJob([jobs |-> jobs, orphans |-> orphans,
                             schedules |-> schedules, threw |-> FALSE,
                             returned |-> TRUE], s, FALSE).returned
            /\ s.id \in DOMAIN jobs' => jobs'[s.id].stopped
            /\ orphans' = orphans
            /\ schedules' = schedules]_vars

\* scheduleJob was called with a refused expression for a schedule that is
\* stored and enabled and had a timer: the row is still there, still enabled
C11_Witness ==
  /\ calls # <<>> /\ calls[Len(calls)] = "scheduleJob"
  /\ \E id \in DOMAIN jobs :
       /\ jobs[id].stopped
       /\ id \in DOMAIN schedules /\ schedules[id].enabled

\* C12: whenever no operation is mid-way (the daemon is between callbacks
\* and has reloaded after the last edit, no run is in flight, no tool call
\* is being served, no storage statement has failed), every enabled schedule
\* whose expression cron.validate accepts and the calculator supports, and
\* whose timer runs on that expression, has a next_run_at equal to the
\* calculator's output for the expression now stored.
C12_NextRunMatchesStoredExpression ==
  (/\ dpc = "idle" /\ running
   /\ tick.phase = "done"
   /\ op.kind = "none"
   /\ runs = {} /\ mruns = {}
   /\ failures = 0)
    => \A id \in DOMAIN schedules :
         (/\ schedules[id].enabled
          /\ validate(schedules[id].cron_expression)
          /\ NextRunOf(schedules[id].cron_expression) # Null
          /\ Armed(id)
          /\ jobs[id].expr = schedules[id].cron_expression)
           => schedules[id].next_run_at = NextRunOf(schedules[id].cron_expression)

\* C13: once a poll tick that began after a removal has ended (the daemon
\* running, no storage statement having failed), no timer exists for an id
\* that is no longer stored, in the job map or outside it; and a firing for
\* an id that is not stored creates no log and dispatches nothing.
C13_RemovedScheduleTimerGone ==
  /\ [](  (tick.phase = "done" /\ dpc = "idle" /\ running /\ failures = 0)
          => /\ \A id \in DOMAIN jobs : id \in DOMAIN schedules
             /\ \A o \in orphans : o.id \in DOMAIN schedules)
  /\ [][\A id \in Ids :
          (Fire(id) /\ id \notin DOMAIN schedules)
            => logs' = logs /\ runs' = runs /\ nextLogId' = nextLogId]_vars

\* C14: schedule_run with dry_run = true on a stored schedule, enabled or
\* paused, answers without an error with a preview of the command, the
\* working directory, the cron expression and the enabled state of the
\* stored row, and changes nothing: no log, no dispatch, no counter, no
\* timer.
C14_DryRunHasNoEffect ==
  [][\A id \in DOMAIN schedules :
       handleScheduleRun(id, TRUE)
         => /\ resp'.n = resp.n + 1 /\ resp'.kind = "dryrun" /\ ~resp'.isError
            /\ resp'.args.command = schedules[id].prompt
            /\ resp'.args.working_directory
                 = (IF schedules[id].working_directory = Null THEN TextDefault
                    ELSE schedules[id].working_directory)
            /\ resp'.args.cron_expression = schedules[id].cron_expression
            /\ resp'.args.status = "Enabled" <=> schedules[id].enabled
            /\ resp'.args.status = "Paused" <=> ~schedules[id].enabled
            /\ UNCHANGED <<daemonVars, execVars, mruns, nextId>>]_vars

\* a dry run was answered for a paused schedule
C14_Witness ==
  /\ resp.kind = "dryrun"
  /\ resp.args.status = "Paused"

\* the storage statements of one timer firing, in order
TimerEffects ==
  <<"addExecutionLog", "updateExecutionLog", "incrementRunCount", "updateNextRunAt">>

\* C15: a manual, non-dry schedule_run that ends with no storage statement
\* failing, on a schedule whose expression the calculator supports, has
\* executed the storage statements of a timer firing in the same order:
\* create the log, finalise it, bump the counter, persist the recomputed
\* next_run_at.
C15_ManualRunSameEffectsAsTimer ==
  [][\A r \in mruns :
       (/\ handleScheduleRunDone(r)
        /\ failures' = failures
        /\ r.logId \in DOMAIN logs'
        /\ NextRunOf(r.cron_expression) # Null)
         => logs'[r.logId].effects = TimerEffects]_vars

\* the same statement about the timer's own runs
TimerRunHasTimerEffects ==
  [][\A r \in runs :
       (/\ ExecDone(r)
        /\ failures' = failures
        /\ r.logId \in DOMAIN logs'
        /\ NextRunOf(r.cron_expression) # Null)
         => logs'[r.logId].effects = TimerEffects]_vars

\* C16: a reload (explicit or from the poll) does not cancel a run in
\* flight: a step that replaces or clears timers while the daemon lives
\* leaves the runs in flight and their logs as they are, and a run that
\* ends with no storage statement failing leaves its log, when still
\* stored, in a terminal status and has raised run_count + error_count of
\* its schedule, when still stored, by one.
C16_ReloadKeepsRunInFlight ==
  /\ [][(jobs' # jobs /\ dpc' # "dead") => (runs' = runs /\ logs' = logs)]_vars
  /\ [][\A r \in runs :
          (ExecDone(r) /\ failures' = failures)
            => /\ r.logId \in DOMAIN logs
                 => /\ logs'[r.logId].status \in {"success", "failed"}
                    /\ logs[r.logId].status = "running"
               /\ r.id \in DOMAIN schedules
                 => schedules'[r.id].run_count + schedules'[r.id].error_count
                      = schedules[r.id].run_count + schedules[r.id].error_count + 1]_vars

\* a run of schedule 1 that began on '0 9 * * *' ended after the expression
\* was edited and the reload had armed the new timer: its log is terminal,
\* the counter is raised, and its next_run_at write came after the reload's
C16_Witness ==
  /\ failures = 0 /\ runs = {} /\ dpc = "idle"
  /\ 1 \in DOMAIN schedules /\ 1 \in DOMAIN jobs /\ 1 \in DOMAIN logs
  /\ schedules[1].cron_expression = CronEvery5
  /\ jobs[1].expr = CronEvery5 /\ ~jobs[1].stopped
  /\ schedules[1].next_run_at = CronDaily9
  /\ logs[1].status \in {"success", "failed"}
  /\ logs[1].effects = TimerEffects
  /\ schedules[1].run_count + schedules[1].error_count = 1

\* the log rows of schedule id
LogsOf(id) == {l \in DOMAIN logs : logs[l].schedule_id = id}

\* C17: a timer-fired run that ends writes to no log but the one it created;
\* and when the only two runs a stored schedule ever had overlapped in time
\* and both have ended (the daemon alive, no storage statement having
\* failed), both logs are terminal and run_count + error_count is 2.
C17_OverlappingRunsCountTwice ==
  /\ [][\A r \in runs :
          ExecDone(r) => \A l \in DOMAIN logs \ {r.logId} : logs'[l] = logs[l]]_vars
  /\ [](\A id \in DOMAIN schedules :
          (/\ Cardinality(LogsOf(id)) = 2
           /\ \A l \in LogsOf(id) : logs[l].overlapped
           /\ InFlightLogs(id) = {}
           /\ dpc # "dead" /\ failures = 0)
            => /\ \A l \in LogsOf(id) : logs[l].status \in {"success", "failed"}
               /\ schedules[id].run_count + schedules[id].error_count = 2)

\* t is s without its leading and trailing white space
IsTrimOf(t, s) ==
  \E i \in 1..(Len(s) + 1), j \in 0..Len(s) :
    /\ t = SubSeq(s, i, j)
    /\ \A k \in 1..Len(s) : (k < i \/ k > j) => s[k] \in WhiteSpace
    /\ t # <<>> => (t[1] \notin WhiteSpace /\ t[Len(t)] \notin WhiteSpace)

\* C18 as amended: when the timeout handler runs, the promise is resolved
\* in that step, once, with success = false, the timeout text, exit code
\* null and, as output, the stdout captured up to then without its leading
\* and trailing white space; so the result exists when the 5-second timer
\* of the handler fires.
C18_TimeoutResultIsTrimmedStdout ==
  /\ \A i \in 1..Len(signals) :
       signals[i].kind = "timeout"
         => /\ resolved /\ Len(resolveCalls) = 1
            /\ ~resolveCalls[1].success
            /\ resolveCalls[1].error = ErrTimeout
            /\ resolveCalls[1].exitCode = "null"
            /\ IsTrimOf(resolveCalls[1].output, signals[i].out)
  /\ killTimer # "none" => resolved

\* the timeout handler ran with white space at an end of the captured stdout
C18_Witness ==
  /\ signals # <<>> /\ signals[1].kind = "timeout"
  /\ killTimer = "fired"
  /\ signals[1].out # <<>>
  /\ signals[1].out # resolveCalls[1].output

\* C18 as stated: the output of the timeout result equals the stdout
\* captured up to the moment of the timeout.
C18_TimeoutOutputEqualsStdout ==
  \A i \in 1..Len(signals) :
    signals[i].kind = "timeout"
      => /\ resolved /\ Len(resolveCalls) = 1
         /\ ~resolveCalls[1].success
         /\ resolveCalls[1].error = ErrTimeout
         /\ resolveCalls[1].output = signals[i].out

\* C19 as amended: a call that got past spawn or saw it throw ends in a
\* result, never in an exception; the result follows the first signal: a
\* spawn exception or an 'error' event gives success = false with the
\* 'Failed to spawn' text; a close with a code other than 0 gives
\* success = false with the captured stderr without its leading and trailing
\* white space or, when nothing is left of it, 'Process exited with code N'
\* for that code; success = true comes only from a close with code 0.
C19_ResultFollowsFirstSignal ==
  /\ epc = "threw" => resolved
  /\ resolved
       => /\ signals # <<>> /\ Len(resolveCalls) = 1
          /\ signals[1].kind \in {"spawn", "error"}
               => /\ ~resolveCalls[1].success
                  /\ resolveCalls[1].error = ErrFailedToSpawn
          /\ (signals[1].kind = "close" /\ signals[1].code # "0")
               => /\ ~resolveCalls[1].success
                  /\ IF \A k \in 1..Len(signals[1].err) : signals[1].err[k] \in WhiteSpace
                     THEN resolveCalls[1].error = <<"Process exited with code ", signals[1].code>>
                     ELSE IsTrimOf(resolveCalls[1].error, signals[1].err)
          /\ resolveCalls[1].success
               <=> (signals[1].kind = "close" /\ signals[1].code = "0")

\* a close with a non-zero code resolved the call with stderr holding only
\* white space, and so with the generic text
C19_Witness ==
  /\ resolved /\ signals[1].kind = "close" /\ signals[1].code = "1"
  /\ signals[1].err # <<>>
  /\ resolveCalls[1].error = ErrExitedWithCode("1")

\* C19 as stated: after a close with a non-zero code the error is the
\* captured stderr, or the generic text when the captured stderr is empty.
C19_ErrorEqualsStderr ==
  (resolved /\ signals[1].kind = "close" /\ signals[1].code # "0")
    => /\ ~resolveCalls[1].success
       /\ resolveCalls[1].error
            = (IF signals[1].err = <<>> THEN ErrExitedWithCode(signals[1].code)
               ELSE signals[1].err)

\* the number in a cron field that is a plain number; 0 for *, lists, steps
FieldNumber(field) ==
  IF field # <<>> /\ \A k \in 1..Len(field) : field[k] \in Digits
  THEN parseInt(field) ELSE 0

\* C20: an expression parseSchedule builds from a time-of-day text, English
\* or Japanese, has a minute field of at most 59 and an hour field of at
\* most 23.
C20_ParsedTimeWithinBounds ==
  (pout # <<>> /\ pout[1].success)
    => /\ FieldNumber(split(pout[1].cron_expression, " ")[1]) <= 59
       /\ FieldNumber(split(pout[1].cron_expression, " ")[2]) <= 23

\* C21: parseSchedule on an expression of five fields, each *, */N or a
\* list of numbers and ranges, succeeds and returns the expression as it
\* was given.
C21_CronPassthrough ==
  (pin \in CronInputs /\ pout # <<>>)
    => /\ pout[1].success
       /\ pout[1].cron_expression = pin

\* an expression with a list, a stepped range and a range went through
C21_Witness ==
  /\ pin = CronText(<<"0", "-", "3", "0", "/", "1", "0">>, <<"9", ",", "1", "8">>,
                    <<"1", "5">>, <<"1", "-", "6">>, <<"1", "-", "5">>)
  /\ pout # <<>> /\ pout[1].success

\* `*/N * * * *`
EveryNMinutesCron(n) ==
  <<"*", "/">> \o numToText(n) \o <<" ", "*", " ", "*", " ", "*", " ", "*">>

\* the expression is of a fixed-interval shape: a step in the minute or in
\* the hour field
IsIntervalCron(cron) ==
  \/ Len(cron) >= 2 /\ SubSeq(cron, 1, 2) = <<"*", "/">>
  \/ Len(cron) >= 4 /\ SubSeq(cron, 1, 4) = <<"0", " ", "*", "/">>

\* C22: 'every N minutes', 'N分ごと' and 'N分毎' parse to `*/N * * * *` for
\* N from 1 to 59; for N = 0 and N >= 60 no fixed-interval expression
\* comes out.
C22_EveryNMinutes ==
  \A n \in 0..MaxMinuteInterval :
    (pin \in {EveryMinutesText(n), JpMinutesGotoText(n), JpMinutesMaiText(n)}
     /\ pout # <<>>)
      => IF 1 <= n /\ n <= 59
         THEN pout[1].success /\ pout[1].cron_expression = EveryNMinutesCron(n)
         ELSE ~pout[1].success \/ ~IsIntervalCron(pout[1].cron_expression)

\* '59分毎' was parsed
C22_Witness ==
  /\ pin = JpMinutesMaiText(59)
  /\ pout # <<>> /\ pout[1].success

\* `0 */N * * *`
EveryNHoursCron(n) ==
  <<"0", " ", "*", "/">> \o numToText(n) \o <<" ", "*", " ", "*", " ", "*">>

\* C23: 'every N hours' parses to `0 */N * * *` for N from 1 to 23;
\* 'N時間ごと' and 'N時間毎' parse to `0 */N * * *` for N from 2 to 23 and to
\* the hourly `0 * * * *` for N = 1; for N = 0 and N >= 24 no
\* fixed-interval expression comes out.
C23_EveryNHours ==
  \A n \in 0..MaxHourInterval :
    /\ (pin = EveryHoursText(n) /\ pout # <<>>)
         => IF 1 <= n /\ n <= 23
            THEN pout[1].success /\ pout[1].cron_expression = EveryNHoursCron(n)
            ELSE ~pout[1].success \/ ~IsIntervalCron(pout[1].cron_expression)
    /\ (pin \in {JpHoursGotoText(n), JpHoursMaiText(n)} /\ pout # <<>>)
         => IF 2 <= n /\ n <= 23
            THEN pout[1].success /\ pout[1].cron_expression = EveryNHoursCron(n)
            ELSE IF n = 1
            THEN pout[1].success
                 /\ pout[1].cron_expression = <<"0", " ", "*", " ", "*", " ", "*", " ", "*">>
            ELSE ~pout[1].success \/ ~IsIntervalCron(pout[1].cron_expression)

\* C24: round trip: whenever parseSchedule succeeds on a text, parseSchedule on
\* the cron_expression it returned succeeds too, through the cron passthrough
\* (the expression matches CRON_REGEX), and returns the identical expression.
C24_RoundTrip ==
  pagain # <<>> =>
    /\ pagain[1].success
    /\ ReTest(CRON_REGEX, pout[1].cron_expression)
    /\ pagain[1].cron_expression = pout[1].cron_expression

\* `MM HH * * D` for the time t = <<HH, MM>> and the day-of-week field d
WeeklyAt(t, d) ==
  numToText(t[2]) \o <<" ">> \o numToText(t[1]) \o <<" ", "*", " ", "*", " ">> \o d

\* C30: the rule decides the day-of-week field: "every <weekday> at TIME" and
\* "毎週<weekday> TIME", for each weekday in its English full and abbreviated and
\* its Japanese full and short names, give `MM HH * * D` with D the weekday's
\* number 0..6; "weekday(s) at TIME" and "平日 TIME" give `MM HH * * 1-5`;
\* "weekend(s) at TIME" and "週末 TIME" give `MM HH * * 0,6`; MM and HH are the
\* minute and hour of TIME.
C30_DayOfWeekFollowsRule ==
  pout # <<>> =>
    \A t \in WeekdayTimes :
      /\ \A k \in EnglishDays, at \in AtForms :
           pin = EveryWeekdayText(k, at, t)
             => pout[1] = Parsed(WeeklyAt(t, numToText(WEEKDAYS[k][2])))
      /\ \A k \in JapaneseDays, g \in Gaps :
           \A s \in DaySuffixes(k) :
             pin = JpWeekdayText(k, s, g, t)
               => pout[1] = Parsed(WeeklyAt(t, numToText(WEEKDAYS[k][2])))
      /\ \A at \in AtForms :
           /\ \A w \in WeekdaysWords :
                pin = GroupText(w, at, t)
                  => pout[1] = Parsed(WeeklyAt(t, <<"1", "-", "5">>))
           /\ \A w \in WeekendWords :
                pin = GroupText(w, at, t)
                  => pout[1] = Parsed(WeeklyAt(t, <<"0", ",", "6">>))
      /\ \A g \in Gaps :
           /\ pin = JpGroupText(<<"hei", "nichi">>, g, t)
                => pout[1] = Parsed(WeeklyAt(t, <<"1", "-", "5">>))
           /\ pin = JpGroupText(<<"shuu", "matsu">>, g, t)
                => pout[1] = Parsed(WeeklyAt(t, <<"0", ",", "6">>))

\* "毎週土 23時5分", the short Japanese name of Saturday, was parsed to `5 23 * * 6`
C30_Witness ==
  /\ pin = JpWeekdayText(28, <<>>, <<" ">>, <<23, 5>>)
  /\ pout = <<Parsed(<<"5", " ", "2", "3", " ", "*", " ", "*", " ", "6">>)>>

\* the day after d, at the same time of day
DayAfter(d) == NormDate([d EXCEPT !.date = d.date + 1])

MinuteAfter(d) == NormDate([d EXCEPT !.minutes = d.minutes + 1])

C25_StepNextIsNextMultiple ==
  \A n \in 1..59 :
    (cin = StepMinutesCron(n) /\ cout # <<>>) =>
      LET next == cout[1].time
          multiple == ((cnow.minutes \div n) + 1) * n
      IN /\ cout[1].kind = "date"
         /\ TimeLT(cnow, next)
         /\ next.minutes % n = 0
         /\ next = IF multiple >= 60
                   THEN ZeroSeconds(NormDate([cnow EXCEPT !.hours = cnow.hours + 1,
                                                          !.minutes = 0]))
                   ELSE ZeroSeconds([cnow EXCEPT !.minutes = multiple])

\* a field that is a list of values
IsList(field) == \E k \in 1..Len(field) : field[k] = ","

\* C28: getNextRunTime returns null for a five-field expression outside the
\* shapes it supports: whenever the day-of-month or the month field is not *,
\* or the minute or the hour field is a list, whatever the other fields are.
C28_UnsupportedShapeIsNull ==
  (cin \in ShapeInputs /\ cout # <<>>) =>
    LET parts == split(cin, " ")
    IN (parts[3] # <<"*">> \/ parts[4] # <<"*">> \/ IsList(parts[1]) \/ IsList(parts[2]))
         => cout[1] = NullTime

\* C29: for a text that is not five space-separated fields, or whose fields
\* are not cron tokens, getNextRunTime returns null.
C29_MalformedIsNull ==
  (cin \in MalformedInputs /\ cout # <<>>) => cout[1] = NullTime

\* "N分後" and "in N minutes"
MinutesLaterTexts(n) ==
  { n \o <<"fun", "go">>,
    <<"i", "n", " ">> \o n \o <<" ", "m", "i", "n", "u", "t", "e", "s">> }

\* `m h d M *` for the instant n minutes after the instant now, carried by hand:
\* minutes into hours, hours into days, days into months and years
RECURSIVE CarryDays(_, _, _)
CarryDays(y, mo, d) ==
  IF d <= DaysInMonth(y, mo) THEN <<d, mo + 1>>
  ELSE IF mo = 11 THEN CarryDays(y + 1, 0, d - DaysInMonth(y, mo))
  ELSE CarryDays(y, mo + 1, d - DaysInMonth(y, mo))
MinutesLaterFields(now, n) ==
  LET total == now.hours * 60 + now.minutes + n
      day == CarryDays(now.year, now.month, now.date + total \div 1440)
  IN <<numToText(total % 60), numToText((total \div 60) % 24),
       numToText(day[1]), numToText(day[2]), <<"*">>>>

\* C31: for every N >= 1, parseSchedule on "N分後" and on "in N minutes"
\* succeeds with `m h d M *` whose minute, hour, day of month and month are
\* those of now + N minutes, carried across hour, day, month and year, and
\* whose day-of-week field is *.
C31_MinutesLaterIsNowPlusN ==
  \A n \in LaterCounts :
    (pin \in MinutesLaterTexts(n) /\ pout # <<>>) =>
      /\ pout[1].success
      /\ LET parts == split(pout[1].cron_expression, " ")
         IN /\ Len(parts) = 5
            /\ parts[5] = <<"*">>
            /\ \A k \in 1..4 : parts[k] # <<>> /\ \A j \in 1..Len(parts[k]) : parts[k][j] \in Digits
            /\ Len(n) <= 6 => parts = MinutesLaterFields(Now, parseInt(n))

\* C32: a timer-fired run that ends, on a schedule that is stored, adds one to
\* exactly one of run_count and error_count and leaves the other as it was,
\* whichever path runJob takes, the catch block included; and the counter is
\* run_count exactly when the run's log ends with status success.
C32_OneCounterOncePerRun ==
  [][\A r \in runs :
       (/\ ExecDone(r)
        /\ r.id \in DOMAIN schedules /\ r.id \in DOMAIN schedules'
        /\ r.logId \in DOMAIN logs')
         => LET ran == schedules'[r.id].run_count - schedules[r.id].run_count
                failed == schedules'[r.id].error_count - schedules[r.id].error_count
            IN /\ <<ran, failed>> \in {<<1, 0>>, <<0, 1>>}
               /\ ran = 1 <=> logs'[r.logId].status = "success"]_vars

\* C33: at any time every armed timer is the one stored in the job map under
\* its schedule id, so a schedule id has at most one armed timer: no task that
\* left the map (replaced by scheduleJob, cleared by reload or stop, removed)
\* is still armed.
C33_OneArmedTimerPerId == orphans = {}

\* after start() registered the stored schedule, scheduleJob replaced its
\* timer with one on another expression
C33_Witness ==
  /\ calls = <<"start", "scheduleJob">>
  /\ running /\ dpc = "idle"
  /\ 1 \in DOMAIN jobs
  /\ jobs[1] = [expr |-> CronEvery5, stopped |-> FALSE]

\* C37: whenever the scheduler is stopped (running = false) no timer is armed
\* and there is no poll timer, after any sequence of start, stop, scheduleJob,
\* removeJob and reload.
C37_StoppedMeansNoTimers ==
  ~running =>
    /\ \A id \in DOMAIN jobs : jobs[id].stopped
    /\ orphans = {}
    /\ ~pollTimer

\* C38: every entry of the job map is an armed timer, so the size of the map
\* is the number of schedules that can fire, after any sequence of
\* scheduleJob, removeJob, reload, start and stop.
C38_EveryMapEntryIsArmed ==
  \A id \in DOMAIN jobs : ~jobs[id].stopped

\* C36: a firing dispatches the schedule as stored when it fires: the run a
\* timer's callback starts carries the prompt and the working directory of the
\* stored row at that instant, edits made after the timer was registered
\* included, with no reload in between.
C36_FiringDispatchesStoredRow ==
  [][\A id \in Ids :
       Fire(id) =>
         \A r \in runs' \ runs :
           /\ r.id = id
           /\ id \in DOMAIN schedules
           /\ r.prompt = schedules[id].prompt
           /\ r.working_directory = schedules[id].working_directory]_vars

\* the prompt of schedule 1 was edited after its timer was registered; the
\* daemon has not polled since, and the run of the one firing carries the
\* edited prompt
C36_Witness ==
  /\ fired = <<1>>
  /\ running /\ dpc = "idle"
  /\ lastChecksum = getScheduleChecksum(InitialTable)
  /\ \E r \in runs : r.id = 1 /\ r.prompt = <<"p", "2">>

\* C39: a failed change check or reload is retried.  A poll whose
\* getScheduleChecksum throws leaves the timers and lastChecksum as they were;
\* a reload run by a poll that throws leaves lastChecksum as it was and the
\* poll timer running; and as long as no reload has completed since, the
\* fingerprint of storage differs from lastChecksum, so that the next poll
\* runs the reload again and the timers are rebuilt.
C39_FailedReloadIsRetried ==
  /\ [](  (tick.broken /\ dpc = "idle" /\ running)
            => pollTimer /\ getScheduleChecksum(schedules) # lastChecksum)
  /\ [][(Poll /\ failures' # failures)
          => jobs' = jobs /\ orphans' = orphans /\ lastChecksum' = lastChecksum]_vars
  /\ [][(~tick.broken /\ tick'.broken)
          => lastChecksum' = lastChecksum /\ pollTimer' /\ dpc' = "idle"]_vars

\* C40: once the invocation has resolved because the child closed, emitted
\* 'error' or failed to spawn, the 10-minute timeout is cancelled: its
\* callback never runs, so the grace timer is never created and neither
\* SIGTERM nor SIGKILL is sent, at any later time.
C40_NoSignalAfterResolution ==
  (signals # <<>> /\ signals[1].kind \in {"close", "error", "spawn"})
    => /\ timeoutId = "null"
       /\ killTimer = "none"
       /\ sent = {}
       /\ \A i \in 1..Len(signals) : signals[i].kind # "timeout"

\* an 'error' event resolved the invocation while the child, which had
\* already written output, is still running
C40_Witness ==
  /\ signals # <<>>
  /\ signals[1].kind = "error"
  /\ child = "running"
  /\ stdout # <<>>
  /\ resolved
  /\ timeoutId = "null"

\* H:M:00.000 on the k-th day after the day of now
SlotOn(now, h, mi, k) ==
  NormDate([now EXCEPT !.date = now.date + k, !.hours = h, !.minutes = mi,
                       !.seconds = 0, !.ms = 0])

FieldFires(field, v) ==
  IF field = <<"*">> THEN TRUE
  ELSE IF Len(field) > 2 /\ field[1] = "*" /\ field[2] = "/"
    THEN v % parseInt(SubSeq(field, 3, Len(field))) = 0
  ELSE IF \E k \in 1..Len(field) : field[k] = "-"
    THEN parseInt(split(field, "-")[1]) <= v /\ v <= parseInt(split(field, "-")[2])
  ELSE \E k \in 1..Len(split(field, ",")) : v = parseInt(split(field, ",")[k])

\* the expression fires at the instant t: a whole minute whose minute, hour,
\* day, month and weekday the five fields admit
FiresAt(expr, t) ==
  LET parts == split(expr, " ")
  IN /\ t.seconds = 0 /\ t.ms = 0
     /\ FieldFires(parts[1], t.minutes)
     /\ FieldFires(parts[2], t.hours)
     /\ FieldFires(parts[3], t.date)
     /\ FieldFires(parts[4], t.month + 1)
     /\ FieldFires(parts[5], getDay(t))

\* C35: for every expression parseSchedule returns for a recurring rule
\* (every N minutes, hourly, every N hours, daily, weekly, weekdays, weekend,
\* bare time), getNextRunTime returns an instant, not null, and the
\* expression fires at that instant.
C35_CalculatorAnswersParserOutput ==
  (cin \in EmittedInputs /\ cout # <<>>) =>
    /\ cout[1].kind = "date"
    /\ FiresAt(cin, cout[1].time)

====
